---------------------------- MODULE Spec2Model ----------------------------
(***************************************************************************)
(* A model of the XISF container reader of astro-core:                     *)
(*   astro-metadata/src/xisf_parser.rs  (extract_metadata, the mapper),    *)
(*   astro-io/src/xisf.rs               (load_xisf, read_pixel_data),      *)
(*   astro-metadata/src/types.rs        (the metadata record).             *)
(*                                                                         *)
(* Representation.  A byte is an integer 0..255 and a string is the        *)
(* sequence of its character codes, so substring search, slicing and       *)
(* splitting are computed character by character as the Rust code does.    *)
(* Offsets are 0-based as in Rust: Slice(s, a, b) is s[a..b].              *)
(* Option<T> is a sequence of length at most one: None is << >>, Some(v)   *)
(* is <<v>>.  A floating point number is an exact rational [n, d]          *)
(* (rounding to f32/f64 is not modelled).                                  *)
(***************************************************************************)
EXTENDS Integers, Sequences, FiniteSets, TLC

(***************************************************************************)
(* Bounds of the model.                                                    *)
(***************************************************************************)
\* longest sequence of FITSKeyword elements placed in a generated header
MaxKw == 2
\* largest width and height handed to read_pixel_data directly
MaxDim == 2
\* longest sample sequence encoded into a buffer for read_pixel_data
MaxPix == 4
\* longest sequence of further Image tags placed in a generated header
MaxImg == 2

(***************************************************************************)
(* Characters.  A Rust string literal is written as the tuple of its       *)
(* character codes, followed by the literal in a comment.                  *)
(***************************************************************************)
\* the '"' character of format!("{}=\"", ..) and find('"')
Quote == 34
\* the '\'' character of trim_matches('\'')
Apostrophe == 39
\* the ':' character of split(':')
Colon == 58
\* the replacement character U+FFFD of String::from_utf8_lossy
ReplacementChar == 65533

(***************************************************************************)
(* Option and small arithmetic helpers.                                    *)
(***************************************************************************)
None == << >>
Some(v) == <<v>>
IsSome(o) == Len(o) = 1
IsNone(o) == Len(o) = 0

Min(S) == CHOOSE x \in S : \A y \in S : x <= y
Abs(x) == IF x < 0 THEN -x ELSE x

RECURSIVE Gcd(_, _)
Gcd(a, b) == IF b = 0 THEN a ELSE Gcd(b, a % b)

\* an exact rational in lowest terms with positive denominator
Rat(n, d) ==
    LET g == Gcd(Abs(n), Abs(d))
        s == IF d < 0 THEN -1 ELSE 1
    IN  [n |-> s * (n \div g), d |-> s * (d \div g)]

RECURSIVE Pow10(_)
Pow10(k) == IF k = 0 THEN 1 ELSE 10 * Pow10(k - 1)

(***************************************************************************)
(* str primitives of the Rust standard library, on code sequences.         *)
(***************************************************************************)
\* s[a..b]
Slice(s, a, b) == SubSeq(s, a + 1, b)
\* s[a..]
SliceFrom(s, a) == SubSeq(s, a + 1, Len(s))

\* str::find(pat): the offset of the first occurrence of pat in s
StrFind(s, pat) ==
    LET hits == {i \in 0..(Len(s) - Len(pat)) :
                    \A j \in 1..Len(pat) : s[i + j] = pat[j]}
    IN  IF hits = {} THEN None ELSE Some(Min(hits))

StartsWith(s, pat) ==
    Len(s) >= Len(pat) /\ SubSeq(s, 1, Len(pat)) = pat

\* str::split(c).collect(): always at least one part
RECURSIVE Split(_, _)
Split(s, c) ==
    LET i == StrFind(s, <<c>>)
    IN  IF IsNone(i) THEN <<s>>
        ELSE <<Slice(s, 0, i[1])>> \o Split(SliceFrom(s, i[1] + 1), c)

\* str::trim_matches(c): every leading and every trailing c is removed
RECURSIVE TrimStartMatches(_, _)
TrimStartMatches(s, c) ==
    IF Len(s) > 0 /\ s[1] = c THEN TrimStartMatches(Tail(s), c) ELSE s

RECURSIVE TrimEndMatches(_, _)
TrimEndMatches(s, c) ==
    IF Len(s) > 0 /\ s[Len(s)] = c
    THEN TrimEndMatches(SubSeq(s, 1, Len(s) - 1), c) ELSE s

TrimMatches(s, c) == TrimEndMatches(TrimStartMatches(s, c), c)

\* char::is_whitespace on the codes that occur in the model's texts
IsWhitespace(c) == c \in {9, 10, 11, 12, 13, 32}

RECURSIVE TrimStart(_)
TrimStart(s) == IF Len(s) > 0 /\ IsWhitespace(s[1]) THEN TrimStart(Tail(s)) ELSE s

RECURSIVE TrimEnd(_)
TrimEnd(s) ==
    IF Len(s) > 0 /\ IsWhitespace(s[Len(s)])
    THEN TrimEnd(SubSeq(s, 1, Len(s) - 1)) ELSE s

\* str::trim()
Trim(s) == TrimEnd(TrimStart(s))

\* str::split_whitespace().collect(): the maximal runs of non-whitespace
RECURSIVE SplitWhitespace(_)
SplitWhitespace(s) ==
    LET t == TrimStart(s)
        ws == {i \in 1..Len(t) : IsWhitespace(t[i])}
    IN  IF Len(t) = 0 THEN << >>
        ELSE IF ws = {} THEN <<t>>
        ELSE <<SubSeq(t, 1, Min(ws) - 1)>> \o SplitWhitespace(SubSeq(t, Min(ws), Len(t)))

IsDigit(c) == c >= 48 /\ c <= 57
AllDigits(s) == \A i \in 1..Len(s) : IsDigit(s[i])

RECURSIVE DigitsValue(_)
DigitsValue(s) ==
    IF Len(s) = 0 THEN 0
    ELSE 10 * DigitsValue(SubSeq(s, 1, Len(s) - 1)) + (s[Len(s)] - 48)

\* <usize as FromStr>::from_str(s).ok(): an optional '+' and at least one
\* digit (the model's texts hold at most nine digits, so no overflow)
ParseUsize(s) ==
    LET body == IF Len(s) > 0 /\ s[1] = 43 THEN Tail(s) ELSE s
    IN  IF Len(body) > 0 /\ AllDigits(body) THEN Some(DigitsValue(body)) ELSE None

\* <i32 as FromStr>::from_str(s).ok(): an optional sign and digits
ParseI32(s) ==
    LET neg == Len(s) > 0 /\ s[1] = 45
        body == IF Len(s) > 0 /\ s[1] \in {43, 45} THEN Tail(s) ELSE s
    IN  IF Len(body) > 0 /\ AllDigits(body)
        THEN Some(IF neg THEN -DigitsValue(body) ELSE DigitsValue(body))
        ELSE None

\* <f32 as FromStr>::from_str(s).ok() and the f64 one, for decimal notation:
\* [+-] digits [. digits] with at least one digit.  Exponents and the words
\* inf/nan do not occur in the model's texts.
ParseFloat(s) ==
    LET neg == Len(s) > 0 /\ s[1] = 45
        body == IF Len(s) > 0 /\ s[1] \in {43, 45} THEN Tail(s) ELSE s
        dot == StrFind(body, <<46>>)
        ip == IF IsNone(dot) THEN body ELSE Slice(body, 0, dot[1])
        fp == IF IsNone(dot) THEN << >> ELSE SliceFrom(body, dot[1] + 1)
        mag == Rat(DigitsValue(ip \o fp), Pow10(Len(fp)))
    IN  IF Len(ip) + Len(fp) > 0 /\ AllDigits(ip) /\ AllDigits(fp)
        THEN Some(IF neg THEN [n |-> -mag.n, d |-> mag.d] ELSE mag)
        ELSE None

\* String::from_utf8_lossy on single bytes: an ASCII byte is its character,
\* any other byte is invalid on its own and becomes U+FFFD
FromUtf8Lossy(bytes) ==
    [i \in 1..Len(bytes) |-> IF bytes[i] < 128 THEN bytes[i] ELSE ReplacementChar]

(***************************************************************************)
(* The byte stream.  A file is pre followed by rep copies of the byte      *)
(* fill, so that a payload of millions of bytes needs no explicit          *)
(* sequence; a buffer read from it has the same shape.                     *)
(***************************************************************************)
BufLen(b) == Len(b.pre) + b.rep
\* the byte at 0-based offset i of a buffer
BufAt(b, i) == IF i < Len(b.pre) THEN b.pre[i + 1] ELSE b.fill
\* a short buffer as an explicit byte sequence
Expand(b) == b.pre \o [i \in 1..b.rep |-> b.fill]
Explicit(bytes) == [pre |-> bytes, rep |-> 0, fill |-> 0]

\* the bytes still readable at cursor position cur
Available(f, cur) == IF cur >= BufLen(f) THEN 0 ELSE BufLen(f) - cur

\* Read::read_exact(&mut buf) with buf.len() = n at position cur: the n
\* bytes, or none when the stream ends first (ErrorKind::UnexpectedEof)
ReadExact(f, cur, n) ==
    IF n > Available(f, cur) THEN None
    ELSE LET upto == IF cur + n < Len(f.pre) THEN cur + n ELSE Len(f.pre)
             head == IF cur < Len(f.pre) THEN Slice(f.pre, cur, upto) ELSE << >>
         IN  Some([pre |-> head, rep |-> n - Len(head), fill |-> f.fill])

\* u32::from_le_bytes
U32FromLeBytes(b) == b[1] + 256 * b[2] + 65536 * b[3] + 16777216 * b[4]

\* the two bytes taken in big-endian order
U16FromBeBytes(lo, hi) == 256 * lo + hi

\* u16 little-endian, as ReadBytesExt::read_u16::<LittleEndian>
U16FromLeBytes(lo, hi) == lo + 256 * hi

(***************************************************************************)
(* The embedded-markup scanner.                                            *)
(***************************************************************************)
\* the loop of extract_xml_content that looks for the XML declaration
XmlStart(header_data) ==
    LET n == Len(header_data)
        hits == {i \in 0..(n - 1) :
                    i + 5 < n /\ Slice(header_data, i, i + 5) = <<60,63,120,109,108>> (*<?xml*)}
    IN  IF hits = {} THEN 0 ELSE Min(hits)

\* the markup text of a header block that was read in full
XmlContent(header_data) ==
    LET xml_start == XmlStart(header_data)
        nul == StrFind(SliceFrom(header_data, xml_start), <<0>>)
        actual_size == IF IsSome(nul) THEN xml_start + nul[1] ELSE Len(header_data)
    IN  FromUtf8Lossy(Slice(header_data, xml_start, actual_size))

\* extract_attribute that takes the last occurrence of the pattern
extract_attribute_last(xml, attr_name) ==
    LET search_pattern == attr_name \o <<61, Quote>>
        hits == {i \in 0..(Len(xml) - Len(search_pattern)) :
                    Slice(xml, i, i + Len(search_pattern)) = search_pattern}
        start == (CHOOSE i \in hits : \A j \in hits : j <= i) + Len(search_pattern)
        end_pos == StrFind(SliceFrom(xml, start), <<Quote>>)
    IN  IF hits # {} /\ IsSome(end_pos)
        THEN Some(Slice(xml, start, start + end_pos[1]))
        ELSE None

extract_attribute(xml, attr_name) ==
    LET search_pattern == attr_name \o <<61, Quote>>
        start_pos == StrFind(xml, search_pattern)
        start == start_pos[1] + Len(search_pattern)
        end_pos == StrFind(SliceFrom(xml, start), <<Quote>>)
    IN  IF IsSome(start_pos) /\ IsSome(end_pos)
        THEN Some(Slice(xml, start, start + end_pos[1]))
        ELSE None

extract_property_value(xml, property_id) ==
    LET search_pattern == <<105,100,61>> (*id=*) \o <<Quote>> \o property_id \o <<Quote>>
                          \o <<32,116,121,112,101,61>> (* type=*) \o <<Quote>>
        start_pos == StrFind(xml, search_pattern)
        tag_end == StrFind(SliceFrom(xml, start_pos[1]), <<62>> (*>*))
        tag_end_pos == start_pos[1] + tag_end[1] + 1
        end_tag_pos == StrFind(SliceFrom(xml, tag_end_pos), <<60,47,80,114,111,112,101,114,116,121,62>> (*</Property>*))
        value_end == tag_end_pos + end_tag_pos[1]
    IN  IF IsSome(start_pos) /\ IsSome(tag_end) /\ IsSome(end_tag_pos)
        THEN Some(Trim(Slice(xml, tag_end_pos, value_end)))
        ELSE None

(***************************************************************************)
(* Dates: chrono's NaiveDateTime as days since 1970-01-01, the second of   *)
(* the day and nanoseconds (1e9 and more in a leap second).                *)
(***************************************************************************)
IsLeapYear(y) == (y % 4 = 0 /\ y % 100 # 0) \/ y % 400 = 0

DaysInMonth(y, m) ==
    IF m \in {4, 6, 9, 11} THEN 30
    ELSE IF m = 2 THEN (IF IsLeapYear(y) THEN 29 ELSE 28)
    ELSE 31

\* the day number of a proleptic Gregorian date
DaysFromCivil(y0, m, d) ==
    LET y == IF m <= 2 THEN y0 - 1 ELSE y0
        era == y \div 400
        yoe == y - era * 400
        mp == IF m > 2 THEN m - 3 ELSE m + 9
        doy == (153 * mp + 2) \div 5 + d - 1
        doe == yoe * 365 + yoe \div 4 - yoe \div 100 + doy
    IN  era * 146097 + doe - 719468

\* the number of leading digits of s, at most w
RECURSIVE LeadingDigits(_, _)
LeadingDigits(s, w) ==
    IF w = 0 \/ Len(s) = 0 \/ ~IsDigit(s[1]) THEN 0
    ELSE 1 + LeadingDigits(Tail(s), w - 1)

\* The items of a chrono format string: a numeric field (%Y %m %d %H %M
\* %S), %.f, a space, or a literal.
NumItem(f) == [kind |-> "num", field |-> f, text |-> << >>]
LitItem(t) == [kind |-> "lit", field |-> "", text |-> t]
FracItem == [kind |-> "frac", field |-> "f", text |-> << >>]
SpaceItem == [kind |-> "space", field |-> "", text |-> << >>]

\* "%Y-%m-%d" and "%H:%M:%S"
DateItems == <<NumItem("Y"), LitItem(<<45>> (*-*)), NumItem("m"), LitItem(<<45>> (*-*)), NumItem("d")>>
TimeItems == <<NumItem("H"), LitItem(<<58>> (*:*)), NumItem("M"), LitItem(<<58>> (*:*)), NumItem("S")>>

\* the formats of parse_date_time, in the order they are tried
DateFormats ==
    << DateItems \o <<LitItem(<<84>> (*T*))>> \o TimeItems \o <<FracItem, LitItem(<<90>> (*Z*))>>,
       DateItems \o <<LitItem(<<84>> (*T*))>> \o TimeItems \o <<LitItem(<<90>> (*Z*))>>,
       DateItems \o <<LitItem(<<84>> (*T*))>> \o TimeItems \o <<FracItem>>,
       DateItems \o <<LitItem(<<84>> (*T*))>> \o TimeItems,
       DateItems \o <<SpaceItem>> \o TimeItems \o <<FracItem>>,
       DateItems \o <<SpaceItem>> \o TimeItems >>

\* chrono::format::parse over the items of one format: the parsed fields,
\* or none.  A numeric field skips leading whitespace and takes 1..w
\* digits (w = 4 for the year, 2 otherwise; signed years do not occur in
\* the model's texts); %.f takes a '.' and digits when a '.' is next and
\* nothing otherwise; a space item skips whitespace; input left over
\* after the last item is an error.
RECURSIVE ParseItems(_, _, _)
ParseItems(s, items, acc) ==
    IF Len(items) = 0 THEN (IF Len(s) = 0 THEN Some(acc) ELSE None)
    ELSE
      LET it == Head(items) IN
      CASE it.kind = "num" ->
          LET t == TrimStart(s)
              k == LeadingDigits(t, IF it.field = "Y" THEN 4 ELSE 2)
          IN  IF k = 0 THEN None
              ELSE ParseItems(SliceFrom(t, k), Tail(items),
                              [acc EXCEPT ![it.field] = DigitsValue(Slice(t, 0, k))])
        [] it.kind = "frac" ->
          IF Len(s) > 0 /\ s[1] = 46 THEN
              LET k == LeadingDigits(Tail(s), Len(s))
                  kept == IF k > 9 THEN 9 ELSE k
              IN  IF k = 0 THEN None
                  ELSE ParseItems(SliceFrom(s, k + 1), Tail(items),
                         [acc EXCEPT !.f =
                             DigitsValue(Slice(s, 1, 1 + kept)) * Pow10(9 - kept)])
          ELSE ParseItems(s, Tail(items), acc)
        [] it.kind = "space" -> ParseItems(TrimStart(s), Tail(items), acc)
        [] it.kind = "lit" ->
          IF StartsWith(s, it.text)
          THEN ParseItems(SliceFrom(s, Len(it.text)), Tail(items), acc)
          ELSE None

\* NaiveDateTime::parse_from_str(date_str, format).ok()
ParseFromStr(date_str, format) ==
    LET p == ParseItems(date_str, format,
                        [Y |-> 0, m |-> 0, d |-> 0, H |-> 0, M |-> 0, S |-> 0, f |-> 0])
        v == p[1]
    IN  IF IsSome(p)
           /\ v.m >= 1 /\ v.m <= 12 /\ v.d >= 1 /\ v.d <= DaysInMonth(v.Y, v.m)
           /\ v.H <= 23 /\ v.M <= 59 /\ v.S <= 60
        THEN Some([days |-> DaysFromCivil(v.Y, v.m, v.d),
                   secs |-> v.H * 3600 + v.M * 60 + (IF v.S = 60 THEN 59 ELSE v.S),
                   nanos |-> IF v.S = 60 THEN v.f + 1000000000 ELSE v.f])
        ELSE None

\* parse_date_time that also accepts "%Y-%m-%d", as midnight
parse_date_time_or_date(date_str) ==
    LET formats == DateFormats \o <<DateItems>>
        ok == {i \in 1..Len(formats) : IsSome(ParseFromStr(date_str, formats[i]))}
    IN  IF ok = {} THEN None ELSE ParseFromStr(date_str, formats[Min(ok)])

parse_date_time(date_str) ==
    LET ok == {i \in 1..Len(DateFormats) : IsSome(ParseFromStr(date_str, DateFormats[i]))}
    IN  IF ok = {} THEN None ELSE ParseFromStr(date_str, DateFormats[Min(ok)])

\* DateTime < DateTime
DateTimeLt(a, b) ==
    \/ a.days < b.days
    \/ a.days = b.days /\ a.secs < b.secs
    \/ a.days = b.days /\ a.secs = b.secs /\ a.nanos < b.nanos

\* DateTime + chrono::Duration::hours(h)
AddHours(dt, h) ==
    LET total == dt.secs + 3600 * h
    IN  [dt EXCEPT !.days = dt.days + total \div 86400, !.secs = total % 86400]

\* date_naive().and_hms_opt(12, 0, 0)
NoonOf(dt) == [days |-> dt.days, secs |-> 43200, nanos |-> 0]

\* rounding to the nearest integer with every half going up
RoundRatHalfUp(q) == (2 * q.n + q.d) \div (2 * q.d)

\* f64::round() as i32: to the nearest integer, halves away from zero
RoundRat(q) ==
    LET a == (2 * Abs(q.n) + q.d) \div (2 * q.d)
    IN  IF q.n < 0 THEN -a ELSE a

(***************************************************************************)
(* The metadata record (types.rs): the #[derive(Default)] values.          *)
(***************************************************************************)
DefaultEquipment ==
    [telescope_name |-> None, focal_length |-> None, aperture |-> None,
     focal_ratio |-> None, reducer_flattener |-> None, mount_model |-> None,
     focuser_position |-> None, focuser_temperature |-> None]

DefaultDetector ==
    [camera_name |-> None, pixel_size |-> None, width |-> 0, height |-> 0,
     binning_x |-> 0, binning_y |-> 0, gain |-> None, offset |-> None,
     readout_mode |-> None, usb_limit |-> None, read_noise |-> None,
     full_well |-> None, temperature |-> None, temp_setpoint |-> None,
     cooler_power |-> None, cooler_status |-> None, rotator_angle |-> None]

DefaultFilter == [name |-> None, position |-> None, wavelength |-> None]

DefaultExposure ==
    [object_name |-> None, ra |-> None, dec |-> None, date_obs |-> None,
     session_date |-> None, exposure_time |-> None, frame_type |-> None,
     sequence_id |-> None, frame_number |-> None, dither_offset_x |-> None,
     dither_offset_y |-> None, project_name |-> None, session_id |-> None]

DefaultMount ==
    [pier_side |-> None, meridian_flip |-> None, latitude |-> None,
     longitude |-> None, height |-> None, guide_camera |-> None,
     guide_rms |-> None, guide_scale |-> None, dither_enabled |-> None,
     peak_ra_error |-> None, peak_dec_error |-> None]

DefaultEnvironment ==
    [ambient_temp |-> None, humidity |-> None, dew_heater_power |-> None,
     voltage |-> None, current |-> None, software_version |-> None,
     plugin_info |-> None, sqm |-> None]

DefaultWcsData ==
    [ctype1 |-> None, ctype2 |-> None, crpix1 |-> None, crpix2 |-> None,
     crval1 |-> None, crval2 |-> None, cd1_1 |-> None, cd1_2 |-> None,
     cd2_1 |-> None, cd2_2 |-> None, crota2 |-> None, airmass |-> None,
     altitude |-> None, azimuth |-> None]

DefaultColorManagement ==
    [color_space |-> None, icc_profile |-> None, display_function |-> None]

\* a HashMap is a function on its set of keys
EmptyMap == [k \in {} |-> << >>]
\* entry(k).or_insert(v): an existing value is kept
MapInsertIfAbsent(m, k, v) ==
    [x \in DOMAIN m \cup {k} |-> IF x \in DOMAIN m THEN m[x] ELSE v]

MapInsert(m, k, v) == [x \in DOMAIN m \cup {k} |-> IF x = k THEN v ELSE m[x]]

DefaultDisplayFunction == [function_type |-> None, parameters |-> EmptyMap]

DefaultAttachmentInfo ==
    [id |-> << >>, geometry |-> << >>, sample_format |-> << >>,
     bits_per_sample |-> 0, compression |-> None,
     compression_parameters |-> EmptyMap, checksum_type |-> None,
     checksum |-> None, resolution_x |-> None, resolution_y |-> None,
     resolution_unit |-> None]

DefaultAstroMetadata ==
    [equipment |-> DefaultEquipment, detector |-> DefaultDetector,
     filter |-> DefaultFilter, exposure |-> DefaultExposure,
     mount |-> None, environment |-> None, wcs |-> None, xisf |-> None,
     color_management |-> None, attachments |-> << >>,
     raw_headers |-> EmptyMap]

\* XisfMetadata::default(): an empty version
DefaultXisfMetadata ==
    [version |-> << >>, creator |-> None, creation_time |-> None,
     block_alignment |-> None]

\* the XisfMetadata value extract_metadata starts from
InitialXisfMetadata ==
    [version |-> <<49,46,48>> (*1.0*), creator |-> None, creation_time |-> None,
     block_alignment |-> None]

(***************************************************************************)
(* types.rs: the session date.                                             *)
(***************************************************************************)
approximate_timezone_from_longitude(md) ==
    IF IsSome(md.mount) /\ IsSome(md.mount[1].longitude)
    THEN LET longitude == md.mount[1].longitude[1]
         IN  Some(RoundRat(Rat(longitude.n, longitude.d * 15)))
    ELSE None

\* calculate_session_date that takes the previous day's noon at noon too
calculate_session_date_noon_inclusive(md) ==
    IF IsSome(md.exposure.date_obs) THEN
        LET date_obs == md.exposure.date_obs[1]
            tz_offset == approximate_timezone_from_longitude(md)
            local_time == IF IsSome(tz_offset) THEN AddHours(date_obs, tz_offset[1])
                          ELSE date_obs
            noon == NoonOf(local_time)
        IN  [md EXCEPT !.exposure.session_date =
                IF ~DateTimeLt(noon, local_time)
                THEN Some([noon EXCEPT !.days = noon.days - 1])
                ELSE Some(noon)]
    ELSE md

\* calculate_session_date that also stores the shifted time as date_obs
calculate_session_date_shifting(md) ==
    IF IsSome(md.exposure.date_obs) THEN
        LET date_obs == md.exposure.date_obs[1]
            tz_offset == approximate_timezone_from_longitude(md)
            local_time == IF IsSome(tz_offset) THEN AddHours(date_obs, tz_offset[1])
                          ELSE date_obs
            noon == NoonOf(local_time)
        IN  [md EXCEPT !.exposure.date_obs = Some(local_time),
                       !.exposure.session_date =
                           IF DateTimeLt(local_time, noon)
                           THEN Some([noon EXCEPT !.days = noon.days - 1])
                           ELSE Some(noon)]
    ELSE md

calculate_session_date(md) ==
    IF IsSome(md.exposure.date_obs) THEN
        LET date_obs == md.exposure.date_obs[1]
            tz_offset == approximate_timezone_from_longitude(md)
            local_time == IF IsSome(tz_offset) THEN AddHours(date_obs, tz_offset[1])
                          ELSE date_obs
            noon == NoonOf(local_time)
        IN  [md EXCEPT !.exposure.session_date =
                IF DateTimeLt(local_time, noon)
                THEN Some([noon EXCEPT !.days = noon.days - 1])
                ELSE Some(noon)]
    ELSE md

(***************************************************************************)
(* xisf_parser.rs: the keyword mapper.                                     *)
(***************************************************************************)
\* a mount write that starts from the default mount each time
SetMountFresh(md, f, v) ==
    [md EXCEPT !.mount = Some([DefaultMount EXCEPT ![f] = v])]

\* "if let Some(ref mut mount) = metadata.mount { mount.f = v } else
\* { let mut mount = Mount::default(); mount.f = v; metadata.mount =
\* Some(mount) }", the same for the environment and the WCS data
SetMount(md, f, v) ==
    [md EXCEPT !.mount =
        Some([(IF IsSome(md.mount) THEN md.mount[1] ELSE DefaultMount) EXCEPT ![f] = v])]

\* a write that reaches only an environment that is already there
SetEnvironmentIfPresent(md, f, v) ==
    IF IsSome(md.environment)
    THEN [md EXCEPT !.environment = Some([md.environment[1] EXCEPT ![f] = v])]
    ELSE md

SetEnvironment(md, f, v) ==
    [md EXCEPT !.environment =
        Some([(IF IsSome(md.environment) THEN md.environment[1]
               ELSE DefaultEnvironment) EXCEPT ![f] = v])]

SetWcs(md, f, v) ==
    [md EXCEPT !.wcs =
        Some([(IF IsSome(md.wcs) THEN md.wcs[1] ELSE DefaultWcsData) EXCEPT ![f] = v])]

\* Option::unwrap_or
UnwrapOr(o, dflt) == IF IsSome(o) THEN o[1] ELSE dflt

\* parse_sexagesimal that takes the sign from the parsed first token alone
parse_sexagesimal_sign_of_hours(value) ==
    LET parts == SplitWhitespace(value)
        h == ParseFloat(parts[1])
        m == ParseFloat(parts[2])
        s == ParseFloat(parts[3])
        neg == h[1].n < 0
        dd == h[1].d * m[1].d * s[1].d
        num == Abs(h[1].n) * 3600 * m[1].d * s[1].d
               + m[1].n * 60 * h[1].d * s[1].d
               + s[1].n * h[1].d * m[1].d
        mag == Rat(num, 3600 * dd)
    IN  IF Len(parts) >= 3 /\ IsSome(h) /\ IsSome(m) /\ IsSome(s)
        THEN Some(IF neg THEN [n |-> -mag.n, d |-> mag.d] ELSE mag)
        ELSE None

\* parse_sexagesimal: sign * (|h| + m/60 + s/3600)
parse_sexagesimal(value) ==
    LET parts == SplitWhitespace(value)
        h == ParseFloat(parts[1])
        m == ParseFloat(parts[2])
        s == ParseFloat(parts[3])
        neg == h[1].n < 0 \/ StartsWith(value, <<45>> (*-*))
        \* |h| + m/60 + s/3600 over the common denominator 3600*dh*dm*ds
        dd == h[1].d * m[1].d * s[1].d
        num == Abs(h[1].n) * 3600 * m[1].d * s[1].d
               + m[1].n * 60 * h[1].d * s[1].d
               + s[1].n * h[1].d * m[1].d
        mag == Rat(num, 3600 * dd)
    IN  IF Len(parts) >= 3 /\ IsSome(h) /\ IsSome(m) /\ IsSome(s)
        THEN Some(IF neg THEN [n |-> -mag.n, d |-> mag.d] ELSE mag)
        ELSE None

\* Coordinate with the sexagesimal result stored as it is
CoordinateUnscaled(field, value, factor) ==
    LET decimal == ParseFloat(value)
        deg == parse_sexagesimal(value)
    IN  IF IsSome(decimal) THEN decimal
        ELSE IF IsSome(deg) THEN deg
        ELSE field

\* the arms "RA" | "OBJCTRA" and "DEC" | "OBJCTDEC": the new content of the
\* field, "if let Ok(ra) = value.parse::<f32>() { Some(ra as f64) } else if
\* let Some(deg) = parse_sexagesimal(value) { Some(deg * 15.0) }" for the
\* right ascension, Some(deg) for the declination (factor 1)
Coordinate(field, value, factor) ==
    LET decimal == ParseFloat(value)
        deg == parse_sexagesimal(value)
    IN  IF IsSome(decimal) THEN decimal
        ELSE IF IsSome(deg) THEN Some(Rat(deg[1].n * factor, deg[1].d))
        ELSE field

process_fits_keyword(md, name, value) ==
    LET str == Some(value)
        float == ParseFloat(value)
    IN
    CASE name = <<84,69,76,69,83,67,79,80>> (*TELESCOP*) -> [md EXCEPT !.equipment.telescope_name = str]
      [] name = <<70,79,67,65,76,76,69,78>> (*FOCALLEN*) -> [md EXCEPT !.equipment.focal_length = float]
      [] name = <<65,80,69,82,84,85,82,69>> (*APERTURE*) -> [md EXCEPT !.equipment.aperture = float]
      [] name = <<70,79,67,82,65,84,73,79>> (*FOCRATIO*) -> [md EXCEPT !.equipment.focal_ratio = float]
      [] name \in {<<73,78,83,84,82,85,77,69>> (*INSTRUME*), <<67,65,77,69,82,65>> (*CAMERA*)} -> [md EXCEPT !.detector.camera_name = str]
      [] name \in {<<88,80,73,88,83,90>> (*XPIXSZ*), <<80,73,88,83,73,90,69>> (*PIXSIZE*)} -> [md EXCEPT !.detector.pixel_size = float]
      [] name = <<88,66,73,78,78,73,78,71>> (*XBINNING*) ->
            [md EXCEPT !.detector.binning_x = UnwrapOr(ParseUsize(value), 1)]
      [] name = <<89,66,73,78,78,73,78,71>> (*YBINNING*) ->
            [md EXCEPT !.detector.binning_y = UnwrapOr(ParseUsize(value), 1)]
      [] name \in {<<71,65,73,78>> (*GAIN*), <<69,71,65,73,78>> (*EGAIN*)} -> [md EXCEPT !.detector.gain = float]
      [] name = <<82,68,78,79,73,83,69>> (*RDNOISE*) -> [md EXCEPT !.detector.read_noise = float]
      [] name \in {<<67,67,68,45,84,69,77,80>> (*CCD-TEMP*), <<67,67,68,84,69,77,80>> (*CCDTEMP*)} -> [md EXCEPT !.detector.temperature = float]
      [] name = <<83,69,84,45,84,69,77,80>> (*SET-TEMP*) -> [md EXCEPT !.detector.temp_setpoint = float]
      [] name = <<70,73,76,84,69,82>> (*FILTER*) -> [md EXCEPT !.filter.name = str]
      [] name = <<79,66,74,69,67,84>> (*OBJECT*) -> [md EXCEPT !.exposure.object_name = str]
      [] name \in {<<82,65>> (*RA*), <<79,66,74,67,84,82,65>> (*OBJCTRA*)} ->
            [md EXCEPT !.exposure.ra = Coordinate(@, value, 15)]
      [] name \in {<<68,69,67>> (*DEC*), <<79,66,74,67,84,68,69,67>> (*OBJCTDEC*)} ->
            [md EXCEPT !.exposure.dec = Coordinate(@, value, 1)]
      [] name = <<68,65,84,69,45,79,66,83>> (*DATE-OBS*) -> [md EXCEPT !.exposure.date_obs = parse_date_time(value)]
      [] name \in {<<69,88,80,84,73,77,69>> (*EXPTIME*), <<69,88,80,79,83,85,82,69>> (*EXPOSURE*)} -> [md EXCEPT !.exposure.exposure_time = float]
      [] name \in {<<73,77,65,71,69,84,89,80>> (*IMAGETYP*), <<70,82,65,77,69>> (*FRAME*)} -> [md EXCEPT !.exposure.frame_type = str]
      [] name = <<80,73,69,82,83,73,68,69>> (*PIERSIDE*) -> SetMount(md, "pier_side", str)
      [] name \in {<<65,77,66,95,84,69,77,80>> (*AMB_TEMP*), <<65,77,66,84,69,77,80>> (*AMBTEMP*)} -> SetEnvironment(md, "ambient_temp", float)
      [] name = <<72,85,77,73,68,73,84,89>> (*HUMIDITY*) -> SetEnvironment(md, "humidity", float)
      [] name = <<67,82,80,73,88,49>> (*CRPIX1*) -> SetWcs(md, "crpix1", float)
      [] name = <<67,82,80,73,88,50>> (*CRPIX2*) -> SetWcs(md, "crpix2", float)
      [] name \in {<<83,73,84,69,76,65,84>> (*SITELAT*), <<79,66,83,76,65,84>> (*OBSLAT*)} -> SetMount(md, "latitude", float)
      [] name \in {<<83,73,84,69,76,79,78,71>> (*SITELONG*), <<79,66,83,76,79,78,71>> (*OBSLONG*)} -> SetMount(md, "longitude", float)
      [] name \in {<<83,73,84,69,69,76,69,86>> (*SITEELEV*), <<79,66,83,69,76,69,86>> (*OBSELEV*)} -> SetMount(md, "height", float)
      [] name \in {<<79,70,70,83,69,84>> (*OFFSET*), <<67,67,68,79,70,70,83,84>> (*CCDOFFST*)} -> [md EXCEPT !.detector.offset = ParseI32(value)]
      [] name \in {<<82,69,65,68,79,85,84>> (*READOUT*), <<82,69,65,68,79,85,84,77>> (*READOUTM*)} -> [md EXCEPT !.detector.readout_mode = str]
      [] name \in {<<85,83,66,76,73,77,73,84>> (*USBLIMIT*), <<85,83,66,84,82,70,67>> (*USBTRFC*)} -> [md EXCEPT !.detector.usb_limit = str]
      [] name \in {<<82,79,84,65,78,71>> (*ROTANG*), <<82,79,84,80,65>> (*ROTPA*), <<82,79,84,65,84,65,78,71>> (*ROTATANG*)} ->
            [md EXCEPT !.detector.rotator_angle = float]
      [] name \in {<<70,79,67,80,79,83>> (*FOCPOS*), <<70,79,67,85,83,80,79,83>> (*FOCUSPOS*)} ->
            [md EXCEPT !.equipment.focuser_position = ParseI32(value)]
      [] name \in {<<70,79,67,84,69,77,80>> (*FOCTEMP*), <<70,79,67,85,83,84,69,77,80>> (*FOCUSTEMP*)} ->
            [md EXCEPT !.equipment.focuser_temperature = float]
      [] name \in {<<80,69,65,75,82,65>> (*PEAKRA*), <<80,69,65,75,82,65,69,82>> (*PEAKRAER*)} -> SetMount(md, "peak_ra_error", float)
      [] name \in {<<80,69,65,75,68,69,67>> (*PEAKDEC*), <<80,69,65,75,68,67,69,82>> (*PEAKDCER*)} -> SetMount(md, "peak_dec_error", float)
      [] name \in {<<83,81,77>> (*SQM*), <<83,81,77,77,65,71>> (*SQMMAG*), <<83,75,89,81,85,65,76>> (*SKYQUAL*)} -> SetEnvironment(md, "sqm", float)
      [] name \in {<<80,82,79,74,69,67,84>> (*PROJECT*), <<80,82,79,74,78,65,77,69>> (*PROJNAME*)} -> [md EXCEPT !.exposure.project_name = str]
      [] name \in {<<83,69,83,83,73,79,78,73,68>> (*SESSIONID*), <<83,69,83,83,73,68>> (*SESSID*)} -> [md EXCEPT !.exposure.session_id = str]
      [] OTHER -> md

(***************************************************************************)
(* xisf_parser.rs: the passes of extract_metadata over the markup text.    *)
(***************************************************************************)
\* a scan step that leaves the position at the start of the element
ScanElementInPlace(xml, pos, open, close) ==
    LET start_pos == StrFind(SliceFrom(xml, pos), open)
        elem_start == pos + start_pos[1]
        end_pos == StrFind(SliceFrom(xml, elem_start), close)
        elem_end == elem_start + end_pos[1] + Len(close)
    IN  IF IsSome(start_pos) /\ IsSome(end_pos)
        THEN [found |-> TRUE, start |-> elem_start, end |-> elem_start,
              tag |-> Slice(xml, elem_start, elem_end)]
        ELSE [found |-> FALSE, start |-> pos, end |-> pos, tag |-> << >>]

\* One iteration of a "while let Some(start_pos) = xml[pos..].find(open)"
\* scan whose body looks for the terminator close: whether an element was
\* found, its tag text and the position after it.
ScanElement(xml, pos, open, close) ==
    LET start_pos == StrFind(SliceFrom(xml, pos), open)
        elem_start == pos + start_pos[1]
        end_pos == StrFind(SliceFrom(xml, elem_start), close)
        elem_end == elem_start + end_pos[1] + Len(close)
    IN  IF IsSome(start_pos) /\ IsSome(end_pos)
        THEN [found |-> TRUE, start |-> elem_start, end |-> elem_end,
              tag |-> Slice(xml, elem_start, elem_end)]
        ELSE [found |-> FALSE, start |-> pos, end |-> pos, tag |-> << >>]

\* KeywordOfTag without trim_matches: the value as the attribute holds it
KeywordOfTagUntrimmed(keyword_tag) ==
    LET name == extract_attribute(keyword_tag, <<110,97,109,101>> (*name*))
        value == extract_attribute(keyword_tag, <<118,97,108,117,101>> (*value*))
    IN  IF IsSome(name) /\ IsSome(value)
        THEN Some([name |-> name[1], value |-> value[1]])
        ELSE None

\* the body of the loop of extract_fits_keywords for one tag: the name and
\* the cleaned value, when the tag has both attributes
KeywordOfTag(keyword_tag) ==
    LET name == extract_attribute(keyword_tag, <<110,97,109,101>> (*name*))
        value == extract_attribute(keyword_tag, <<118,97,108,117,101>> (*value*))
    IN  IF IsSome(name) /\ IsSome(value)
        THEN Some([name |-> name[1], value |-> TrimMatches(value[1], Apostrophe)])
        ELSE None

\* extract_xml_attributes that takes the height from the first part of the
\* geometry and the width from the second
extract_xml_attributes_swapped(xml, md) ==
    LET geometry == extract_attribute(xml, <<103,101,111,109,101,116,114,121>> (*geometry*))
        parts == Split(geometry[1], Colon)
        md1 == IF IsSome(geometry) /\ Len(parts) >= 2
               THEN [md EXCEPT !.detector.width = UnwrapOr(ParseUsize(parts[2]), 0),
                               !.detector.height = UnwrapOr(ParseUsize(parts[1]), 0)]
               ELSE md
        creation_time == extract_property_value(xml, <<88,73,83,70,58,67,114,101,97,116,105,111,110,84,105,109,101>> (*XISF:CreationTime*))
        md2 == IF IsSome(creation_time)
               THEN [md1 EXCEPT !.exposure.date_obs = parse_date_time(creation_time[1])]
               ELSE md1
        creator_app == extract_property_value(xml, <<88,73,83,70,58,67,114,101,97,116,111,114,65,112,112,108,105,99,97,116,105,111,110>> (*XISF:CreatorApplication*))
    IN  IF IsSome(creator_app)
        THEN SetEnvironment(md2, "software_version", creator_app)
        ELSE md2

\* extract_xml_attributes that leaves a date_obs that is already there
extract_xml_attributes_keeping_date(xml, md) ==
    LET geometry == extract_attribute(xml, <<103,101,111,109,101,116,114,121>> (*geometry*))
        parts == Split(geometry[1], Colon)
        md1 == IF IsSome(geometry) /\ Len(parts) >= 2
               THEN [md EXCEPT !.detector.width = UnwrapOr(ParseUsize(parts[1]), 0),
                               !.detector.height = UnwrapOr(ParseUsize(parts[2]), 0)]
               ELSE md
        creation_time == extract_property_value(xml, <<88,73,83,70,58,67,114,101,97,116,105,111,110,84,105,109,101>> (*XISF:CreationTime*))
        md2 == IF IsSome(creation_time) /\ IsNone(md1.exposure.date_obs)
               THEN [md1 EXCEPT !.exposure.date_obs = parse_date_time(creation_time[1])]
               ELSE md1
        creator_app == extract_property_value(xml, <<88,73,83,70,58,67,114,101,97,116,111,114,65,112,112,108,105,99,97,116,105,111,110>> (*XISF:CreatorApplication*))
    IN  IF IsSome(creator_app)
        THEN SetEnvironment(md2, "software_version", creator_app)
        ELSE md2

extract_xml_attributes(xml, md) ==
    LET geometry == extract_attribute(xml, <<103,101,111,109,101,116,114,121>> (*geometry*))
        parts == Split(geometry[1], Colon)
        md1 == IF IsSome(geometry) /\ Len(parts) >= 2
               THEN [md EXCEPT !.detector.width = UnwrapOr(ParseUsize(parts[1]), 0),
                               !.detector.height = UnwrapOr(ParseUsize(parts[2]), 0)]
               ELSE md
        creation_time == extract_property_value(xml, <<88,73,83,70,58,67,114,101,97,116,105,111,110,84,105,109,101>> (*XISF:CreationTime*))
        md2 == IF IsSome(creation_time)
               THEN [md1 EXCEPT !.exposure.date_obs = parse_date_time(creation_time[1])]
               ELSE md1
        creator_app == extract_property_value(xml, <<88,73,83,70,58,67,114,101,97,116,111,114,65,112,112,108,105,99,97,116,105,111,110>> (*XISF:CreatorApplication*))
    IN  IF IsSome(creator_app)
        THEN SetEnvironment(md2, "software_version", creator_app)
        ELSE md2

extract_xisf_metadata(xml, xm) ==
    LET version == extract_attribute(xml, <<118,101,114,115,105,111,110>> (*version*))
        creator_app == extract_property_value(xml, <<88,73,83,70,58,67,114,101,97,116,111,114,65,112,112,108,105,99,97,116,105,111,110>> (*XISF:CreatorApplication*))
        creation_time == extract_property_value(xml, <<88,73,83,70,58,67,114,101,97,116,105,111,110,84,105,109,101>> (*XISF:CreationTime*))
        block_alignment == extract_attribute(xml, <<98,108,111,99,107,65,108,105,103,110,109,101,110,116>> (*blockAlignment*))
    IN  [version |-> IF IsSome(version) THEN version[1] ELSE xm.version,
         creator |-> IF IsSome(creator_app) THEN creator_app ELSE xm.creator,
         creation_time |-> IF IsSome(creation_time)
                           THEN parse_date_time(creation_time[1])
                           ELSE xm.creation_time,
         block_alignment |-> IF IsSome(block_alignment)
                             THEN ParseUsize(block_alignment[1])
                             ELSE xm.block_alignment]

\* "for pair in params.split(';') { let kv = pair.split('=').collect();
\* if kv.len() == 2 { .. insert(kv[0], conv(kv[1])) } }": the pairs, in
\* order, that are inserted; conv is the identity or a float parse
RECURSIVE PairsInto(_, _, _)
PairsInto(map, pairs, asFloat) ==
    IF Len(pairs) = 0 THEN map
    ELSE LET kv == Split(Head(pairs), 61)
             f == ParseFloat(kv[2])
         IN  IF Len(kv) = 2 /\ ~asFloat
             THEN PairsInto(MapInsert(map, kv[1], kv[2]), Tail(pairs), asFloat)
             ELSE IF Len(kv) = 2 /\ IsSome(f)
             THEN PairsInto(MapInsert(map, kv[1], f[1]), Tail(pairs), asFloat)
             ELSE PairsInto(map, Tail(pairs), asFloat)

extract_color_management(xml, md) ==
    LET color_space == extract_attribute(xml, <<99,111,108,111,114,83,112,97,99,101>> (*colorSpace*))
        icc_profile == extract_property_value(xml, <<73,67,67,80,114,111,102,105,108,101>> (*ICCProfile*))
        display_function_type == extract_attribute(xml, <<100,105,115,112,108,97,121,70,117,110,99,116,105,111,110>> (*displayFunction*))
        params == extract_attribute(xml, <<100,105,115,112,108,97,121,80,97,114,97,109,101,116,101,114,115>> (*displayParameters*))
        display_function ==
            [function_type |-> display_function_type,
             parameters |-> IF IsSome(params)
                            THEN PairsInto(EmptyMap, Split(params[1], 59), TRUE)
                            ELSE EmptyMap]
        color_management ==
            [color_space |-> color_space,
             icc_profile |-> IF IsSome(icc_profile) THEN Some(<< >>) ELSE None,
             display_function |-> IF IsSome(display_function_type)
                                  THEN Some(display_function) ELSE None]
    IN  IF IsSome(color_space) \/ IsSome(icc_profile) \/ IsSome(display_function_type)
        THEN [md EXCEPT !.color_management = Some(color_management)]
        ELSE md

\* usize::to_string, for format!("image{}", attachments.len())
RECURSIVE UsizeToString(_)
UsizeToString(n) ==
    IF n < 10 THEN <<48 + n>> ELSE UsizeToString(n \div 10) \o <<48 + (n % 10)>>

\* AttachmentOfTag that leaves AttachmentInfo::default() where an attribute
\* is missing
AttachmentOfTagNoDefaults(image_tag, count) ==
    LET id == extract_attribute(image_tag, <<105,100>> (*id*))
        geometry == extract_attribute(image_tag, <<103,101,111,109,101,116,114,121>> (*geometry*))
        sample_format == extract_attribute(image_tag, <<115,97,109,112,108,101,70,111,114,109,97,116>> (*sampleFormat*))
        bits_per_sample == extract_attribute(image_tag, <<98,105,116,115,80,101,114,83,97,109,112,108,101>> (*bitsPerSample*))
    IN  [DefaultAttachmentInfo EXCEPT
            !.id = IF IsSome(id) THEN id[1] ELSE @,
            !.geometry = IF IsSome(geometry) THEN geometry[1] ELSE @,
            !.sample_format = IF IsSome(sample_format) THEN sample_format[1] ELSE @,
            !.bits_per_sample = IF IsSome(bits_per_sample)
                                THEN UnwrapOr(ParseUsize(bits_per_sample[1]), 16) ELSE @]

\* the body of the loop of extract_attachments for one tag, count being
\* attachments.len()
AttachmentOfTag(image_tag, count) ==
    LET attr(a) == extract_attribute(image_tag, a)
        id == attr(<<105,100>> (*id*))
        geometry == attr(<<103,101,111,109,101,116,114,121>> (*geometry*))
        sample_format == attr(<<115,97,109,112,108,101,70,111,114,109,97,116>> (*sampleFormat*))
        bits_per_sample == attr(<<98,105,116,115,80,101,114,83,97,109,112,108,101>> (*bitsPerSample*))
        compression == attr(<<99,111,109,112,114,101,115,115,105,111,110>> (*compression*))
        params == attr(<<99,111,109,112,114,101,115,115,105,111,110,80,97,114,97,109,101,116,101,114,115>> (*compressionParameters*))
        checksum_type == attr(<<99,104,101,99,107,115,117,109,84,121,112,101>> (*checksumType*))
        resolution_x == attr(<<120,82,101,115,111,108,117,116,105,111,110>> (*xResolution*))
        resolution_y == attr(<<121,82,101,115,111,108,117,116,105,111,110>> (*yResolution*))
    IN  [id |-> IF IsSome(id) THEN id[1] ELSE <<105,109,97,103,101>> (*image*) \o UsizeToString(count),
         geometry |-> IF IsSome(geometry) THEN geometry[1] ELSE << >>,
         sample_format |-> IF IsSome(sample_format) THEN sample_format[1] ELSE <<85,73,110,116,49,54>> (*UInt16*),
         bits_per_sample |-> IF IsSome(bits_per_sample)
                             THEN UnwrapOr(ParseUsize(bits_per_sample[1]), 16) ELSE 16,
         compression |-> compression,
         compression_parameters |->
             IF IsSome(compression) /\ IsSome(params)
             THEN PairsInto(EmptyMap, Split(params[1], 59), FALSE) ELSE EmptyMap,
         checksum_type |-> checksum_type,
         checksum |-> IF IsSome(checksum_type) THEN attr(<<99,104,101,99,107,115,117,109>> (*checksum*)) ELSE None,
         resolution_x |-> IF IsSome(resolution_x) THEN ParseFloat(resolution_x[1]) ELSE None,
         resolution_y |-> IF IsSome(resolution_x) /\ IsSome(resolution_y)
                          THEN ParseFloat(resolution_y[1]) ELSE None,
         resolution_unit |-> IF IsSome(resolution_x) THEN attr(<<114,101,115,111,108,117,116,105,111,110,85,110,105,116>> (*resolutionUnit*)) ELSE None]

(***************************************************************************)
(* astro-io/src/xisf.rs: the pixel decoder.                                *)
(***************************************************************************)
\* "value as f32 / 65535.0"
Normalize(value) == Rat(value, 65535)

\* read_pixel_data without the size test: the samples the data holds
read_pixel_data_available(data, width, height) ==
    LET count == IF BufLen(data) \div 2 < width * height
                 THEN BufLen(data) \div 2 ELSE width * height
    IN  [pre |-> [i \in 1..count |->
                    Normalize(U16FromLeBytes(BufAt(data, 2 * (i - 1)),
                                             BufAt(data, 2 * (i - 1) + 1)))],
         rep |-> 0, fill |-> Normalize(0)]

\* read_pixel_data: always Ok; the samples as a buffer (explicit samples,
\* then a run of equal ones where the data is a run of equal bytes)
read_pixel_data(data, width, height) ==
    LET expected_size == width * height * 2
        count == width * height
        sample(i) == Normalize(U16FromLeBytes(BufAt(data, 2 * i), BufAt(data, 2 * i + 1)))
        \* the samples that touch the explicit bytes of the data
        touched == (Len(data.pre) + 1) \div 2
        explicit == IF touched < count THEN touched ELSE count
    IN  IF BufLen(data) < expected_size
        THEN [pre |-> << >>, rep |-> count, fill |-> Normalize(0)]
        ELSE [pre |-> [i \in 1..explicit |-> sample(i - 1)],
              rep |-> count - explicit,
              fill |-> Normalize(U16FromLeBytes(data.fill, data.fill))]

\* the hardcoded values of load_xisf
DefaultWidth == 3856
DefaultHeight == 2180
DefaultDataOffset == 28672
DefaultDataSize == 16812160

\* LocatePayload without the test of the location kind
LocatePayloadAnyKind(xml) ==
    LET text == xml[1]
        geometry == extract_attribute(text, <<103,101,111,109,101,116,114,121>> (*geometry*))
        parts == Split(geometry[1], Colon)
        location == extract_attribute(text, <<108,111,99,97,116,105,111,110>> (*location*))
        loc_parts == Split(location[1], Colon)
    IN  IF IsSome(xml) /\ IsSome(geometry) /\ Len(parts) >= 2
           /\ IsSome(location) /\ Len(loc_parts) >= 3
        THEN [from_markup |-> TRUE,
              width |-> UnwrapOr(ParseUsize(parts[1]), 0),
              height |-> UnwrapOr(ParseUsize(parts[2]), 0),
              data_offset |-> UnwrapOr(ParseUsize(loc_parts[2]), 0),
              data_size |-> UnwrapOr(ParseUsize(loc_parts[3]), 0)]
        ELSE [from_markup |-> FALSE,
              width |-> DefaultWidth, height |-> DefaultHeight,
              data_offset |-> DefaultDataOffset, data_size |-> DefaultDataSize]

\* the geometry and location load_xisf gets from the markup text (none
\* when the read of the header failed), or the hardcoded values
LocatePayload(xml) ==
    LET text == xml[1]
        geometry == extract_attribute(text, <<103,101,111,109,101,116,114,121>> (*geometry*))
        parts == Split(geometry[1], Colon)
        location == extract_attribute(text, <<108,111,99,97,116,105,111,110>> (*location*))
        loc_parts == Split(location[1], Colon)
    IN  IF IsSome(xml) /\ IsSome(geometry) /\ Len(parts) >= 2
           /\ IsSome(location) /\ Len(loc_parts) >= 3 /\ loc_parts[1] = <<97,116,116,97,99,104,109,101,110,116>> (*attachment*)
        THEN [from_markup |-> TRUE,
              width |-> UnwrapOr(ParseUsize(parts[1]), 0),
              height |-> UnwrapOr(ParseUsize(parts[2]), 0),
              data_offset |-> UnwrapOr(ParseUsize(loc_parts[2]), 0),
              data_size |-> UnwrapOr(ParseUsize(loc_parts[3]), 0)]
        ELSE [from_markup |-> FALSE,
              width |-> DefaultWidth, height |-> DefaultHeight,
              data_offset |-> DefaultDataOffset, data_size |-> DefaultDataSize]

(***************************************************************************)
(* The state of one call.                                                  *)
(***************************************************************************)
VARIABLES
    op,             \* the entry point that runs
    pc,             \* the statement the call is at
    file,           \* the bytes of the input
    cursor,         \* the position of the reader in the input
    io_log,         \* the reads and seeks done so far, in order
    header_size,    \* the header length read from the envelope
    xml,            \* the markup text: None, Some(text)
    pos,            \* the scan position of the running element loop
    metadata,       \* the AstroMetadata under construction
    raw_headers,    \* the local raw_headers map
    xisf_metadata,  \* the local XisfMetadata
    attachments,    \* the local attachments vector
    payload,        \* load_xisf: the located geometry, offset and size
    data,           \* load_xisf: the payload bytes read
    args,           \* what the input was assembled from, or the arguments of a
                    \* function called on its own
    observed,       \* the keyword names and properties handled so far
    result          \* the value returned: None until the call returns

vars == <<op, pc, file, cursor, io_log, header_size, xml, pos, metadata,
          raw_headers, xisf_metadata, attachments, payload, data, args,
          observed, result>>

ioVars == <<cursor, io_log>>
metaVars == <<metadata, raw_headers, xisf_metadata, attachments>>
loadVars == <<payload, data>>

Magic == <<88,73,83,70,48,49,48,48>> (*XISF0100*)

Ok(v) == Some([ok |-> TRUE, value |-> v])
\* an anyhow::Error: its message, and whether it wraps a std::io::Error
Err(msg, io) == Some([ok |-> FALSE, msg |-> msg, io |-> io])

NoPayload == [from_markup |-> FALSE, width |-> 0, height |-> 0,
              data_offset |-> 0, data_size |-> 0]

\* the state on entry to extract_metadata or load_xisf with input i
Start(o, i) ==
    /\ op = o
    /\ pc = "signature"
    /\ file = i.file
    /\ cursor = 0
    /\ io_log = << >>
    /\ header_size = None
    /\ xml = None
    /\ pos = 0
    /\ metadata = DefaultAstroMetadata
    /\ raw_headers = EmptyMap
    /\ xisf_metadata = InitialXisfMetadata
    /\ attachments = << >>
    /\ payload = NoPayload
    /\ data = None
    /\ args = i.header
    /\ observed = {}
    /\ result = None

\* reader.read_exact(&mut buf) of n bytes that succeeds
ReadOk(n) ==
    /\ IsSome(ReadExact(file, cursor, n))
    /\ cursor' = cursor + n
    /\ io_log' = Append(io_log, [kind |-> "read", at |-> cursor, len |-> n, ok |-> TRUE])

\* reader.read_exact(&mut buf) of n bytes that meets the end of the stream:
\* how much of the stream was consumed is unspecified
ReadFails(n) ==
    /\ IsNone(ReadExact(file, cursor, n))
    /\ cursor' \in {cursor, cursor + Available(file, cursor)}
    /\ io_log' = Append(io_log, [kind |-> "read", at |-> cursor, len |-> n, ok |-> FALSE])

\* ReadSignature without the comparison against the magic
ReadSignatureUnchecked ==
    /\ pc = "signature"
    /\ \/ /\ ReadFails(8)
          /\ result' = Err("Failed to read XISF signature", TRUE)
          /\ pc' = "done"
       \/ /\ ReadOk(8)
          /\ result' = result
          /\ pc' = "header_size"
    /\ UNCHANGED <<op, file, header_size, xml, pos, metaVars, loadVars, args, observed>>

\* "Read and validate the signature"
ReadSignature ==
    /\ pc = "signature"
    /\ \/ /\ ReadFails(8)
          /\ result' = Err("Failed to read XISF signature", TRUE)
          /\ pc' = "done"
       \/ /\ ReadOk(8)
          /\ IF Expand(ReadExact(file, cursor, 8)[1]) # Magic
             THEN /\ result' = Err("Invalid XISF signature", FALSE)
                  /\ pc' = "done"
             ELSE /\ result' = result
                  /\ pc' = "header_size"
    /\ UNCHANGED <<op, file, header_size, xml, pos, metaVars, loadVars, args, observed>>

\* "Read the header size (4 bytes)"
ReadHeaderSize ==
    /\ pc = "header_size"
    /\ \/ /\ ReadFails(4)
          /\ result' = Err("Failed to read header size", TRUE)
          /\ pc' = "done"
          /\ header_size' = header_size
       \/ /\ ReadOk(4)
          /\ header_size' = Some(U32FromLeBytes(Expand(ReadExact(file, cursor, 4)[1])))
          /\ pc' = "xml_content"
          /\ result' = result
    /\ UNCHANGED <<op, file, xml, pos, metaVars, loadVars, args, observed>>

\* ExtractXmlContent with a buffer one byte longer than header_size
ExtractXmlContentOneMore(next_ok, next_err) ==
    /\ pc = "xml_content"
    /\ \/ /\ ReadFails(header_size[1] + 1)
          /\ xml' = None
          /\ pc' = next_err
       \/ /\ ReadOk(header_size[1] + 1)
          /\ xml' = Some(XmlContent(Expand(ReadExact(file, cursor, header_size[1] + 1)[1])))
          /\ pc' = next_ok
    /\ UNCHANGED <<op, file, header_size, pos, metaVars, loadVars, args, observed, result>>

\* "if let Ok(xml_content) = extract_xml_content(reader, header_size)":
\* the Err of a short read is dropped and the block guarded by it skipped
ExtractXmlContent(next_ok, next_err) ==
    /\ pc = "xml_content"
    /\ \/ /\ ReadFails(header_size[1])
          /\ xml' = None
          /\ pc' = next_err
       \/ /\ ReadOk(header_size[1])
          /\ xml' = Some(XmlContent(Expand(ReadExact(file, cursor, header_size[1])[1])))
          /\ pc' = next_ok
    /\ UNCHANGED <<op, file, header_size, pos, metaVars, loadVars, args, observed, result>>

(***************************************************************************)
(* extract_metadata (xisf_parser.rs).                                      *)
(***************************************************************************)
MetaReadSignature == op = "extract_metadata" /\ ReadSignature
MetaReadHeaderSize == op = "extract_metadata" /\ ReadHeaderSize
MetaExtractXmlContent ==
    op = "extract_metadata" /\ ExtractXmlContent("fits_keywords", "finish")

\* one iteration of the loop of extract_fits_keywords, or its exit
ExtractFitsKeywords ==
    /\ op = "extract_metadata"
    /\ pc = "fits_keywords"
    /\ LET e == ScanElement(xml[1], pos, <<60,70,73,84,83,75,101,121,119,111,114,100,32>> (*<FITSKeyword *), <<47,62>> (*/>*))
           kw == KeywordOfTag(e.tag)
       IN  IF e.found
           THEN /\ pos' = e.end
                /\ pc' = pc
                /\ IF IsSome(kw)
                   THEN /\ raw_headers' = MapInsert(raw_headers, kw[1].name, kw[1].value)
                        /\ metadata' = process_fits_keyword(metadata, kw[1].name, kw[1].value)
                        /\ observed' = observed \cup {kw[1].name}
                   ELSE UNCHANGED <<raw_headers, metadata, observed>>
           ELSE /\ pos' = 0
                /\ pc' = "xml_attributes"
                /\ UNCHANGED <<raw_headers, metadata, observed>>
    /\ UNCHANGED <<op, file, ioVars, header_size, xml, xisf_metadata, attachments,
                   loadVars, args, result>>

ExtractXmlAttributes ==
    /\ op = "extract_metadata"
    /\ pc = "xml_attributes"
    /\ metadata' = extract_xml_attributes(xml[1], metadata)
    /\ observed' = observed \cup
          {p \in {<<88,73,83,70,58,67,114,101,97,116,105,111,110,84,105,109,101>> (*XISF:CreationTime*), <<88,73,83,70,58,67,114,101,97,116,111,114,65,112,112,108,105,99,97,116,105,111,110>> (*XISF:CreatorApplication*)} :
              IsSome(extract_property_value(xml[1], p))}
    /\ pc' = "xisf_metadata"
    /\ UNCHANGED <<op, file, ioVars, header_size, xml, pos, raw_headers, xisf_metadata,
                   attachments, loadVars, args, result>>

ExtractXisfMetadata ==
    /\ op = "extract_metadata"
    /\ pc = "xisf_metadata"
    /\ xisf_metadata' = extract_xisf_metadata(xml[1], xisf_metadata)
    /\ pc' = "color_management"
    /\ UNCHANGED <<op, file, ioVars, header_size, xml, pos, metadata, raw_headers,
                   attachments, loadVars, args, observed, result>>

ExtractColorManagement ==
    /\ op = "extract_metadata"
    /\ pc = "color_management"
    /\ metadata' = extract_color_management(xml[1], metadata)
    /\ pc' = "attachments"
    /\ UNCHANGED <<op, file, ioVars, header_size, xml, pos, raw_headers, xisf_metadata,
                   attachments, loadVars, args, observed, result>>

\* ExtractAttachments with the lookups made in the document from the tag
\* on, not in the tag alone
ExtractAttachmentsDocumentWide ==
    /\ op = "extract_metadata"
    /\ pc = "attachments"
    /\ LET e == ScanElement(xml[1], pos, <<60,73,109,97,103,101,32>> (*<Image *), <<62>> (*>*))
       IN  IF e.found
           THEN /\ attachments' = Append(attachments,
                      AttachmentOfTag(SliceFrom(xml[1], e.start), Len(attachments)))
                /\ pos' = e.end
                /\ pc' = pc
                /\ metadata' = metadata
           ELSE /\ metadata' = IF attachments # << >>
                               THEN [metadata EXCEPT !.attachments = attachments]
                               ELSE metadata
                /\ pos' = 0
                /\ pc' = "finish"
                /\ attachments' = attachments
    /\ UNCHANGED <<op, file, ioVars, header_size, xml, raw_headers, xisf_metadata,
                   loadVars, args, observed, result>>

\* one iteration of the loop of extract_attachments, or its exit
ExtractAttachments ==
    /\ op = "extract_metadata"
    /\ pc = "attachments"
    /\ LET e == ScanElement(xml[1], pos, <<60,73,109,97,103,101,32>> (*<Image *), <<62>> (*>*))
       IN  IF e.found
           THEN /\ attachments' = Append(attachments, AttachmentOfTag(e.tag, Len(attachments)))
                /\ pos' = e.end
                /\ pc' = pc
                /\ metadata' = metadata
           ELSE /\ metadata' = IF attachments # << >>
                               THEN [metadata EXCEPT !.attachments = attachments]
                               ELSE metadata
                /\ pos' = 0
                /\ pc' = "finish"
                /\ attachments' = attachments
    /\ UNCHANGED <<op, file, ioVars, header_size, xml, raw_headers, xisf_metadata,
                   loadVars, args, observed, result>>

\* "Store raw headers and XISF metadata", "Calculate session date", Ok(metadata)
MetaFinish ==
    /\ op = "extract_metadata"
    /\ pc = "finish"
    /\ metadata' = calculate_session_date(
                      [metadata EXCEPT !.raw_headers = raw_headers,
                                       !.xisf = Some(xisf_metadata)])
    /\ result' = Ok(metadata')
    /\ pc' = "done"
    /\ UNCHANGED <<op, file, ioVars, header_size, xml, pos, raw_headers, xisf_metadata,
                   attachments, loadVars, args, observed>>

(***************************************************************************)
(* load_xisf (astro-io/src/xisf.rs).                                       *)
(***************************************************************************)
LoadReadSignature == op = "load_xisf" /\ ReadSignature
LoadReadHeaderSize == op = "load_xisf" /\ ReadHeaderSize
LoadExtractXmlContent == op = "load_xisf" /\ ExtractXmlContent("locate", "locate")

\* the geometry and location lookups, or the hardcoded values
LoadLocate ==
    /\ op = "load_xisf"
    /\ pc = "locate"
    /\ payload' = LocatePayload(xml)
    /\ pc' = "seek"
    /\ UNCHANGED <<op, file, ioVars, header_size, xml, pos, metaVars, data, args,
                   observed, result>>

\* reader.seek(SeekFrom::Start(data_offset))
LoadSeek ==
    /\ op = "load_xisf"
    /\ pc = "seek"
    /\ cursor' = payload.data_offset
    /\ io_log' = Append(io_log, [kind |-> "seek", at |-> payload.data_offset,
                                 len |-> 0, ok |-> TRUE])
    /\ pc' = "read_data"
    /\ UNCHANGED <<op, file, header_size, xml, pos, metaVars, loadVars, args,
                   observed, result>>

\* reader.read_exact(&mut data) with data.len() = data_size
LoadReadData ==
    /\ op = "load_xisf"
    /\ pc = "read_data"
    /\ \/ /\ ReadFails(payload.data_size)
          /\ result' = Err("Failed to read image data", TRUE)
          /\ data' = data
          /\ pc' = "done"
       \/ /\ ReadOk(payload.data_size)
          /\ data' = ReadExact(file, cursor, payload.data_size)
          /\ result' = result
          /\ pc' = "decode"
    /\ UNCHANGED <<op, file, header_size, xml, pos, metaVars, payload, args, observed>>

\* "let pixels = read_pixel_data(&data, width, height)?; Ok((pixels, width, height))"
LoadDecode ==
    /\ op = "load_xisf"
    /\ pc = "decode"
    /\ result' = Ok([pixels |-> read_pixel_data(data[1], payload.width, payload.height),
                     width |-> payload.width, height |-> payload.height])
    /\ pc' = "done"
    /\ UNCHANGED <<op, file, ioVars, header_size, xml, pos, metaVars, loadVars, args,
                   observed>>

(***************************************************************************)
(* The inputs: XISF files assembled from their parts.                      *)
(***************************************************************************)
\* u32::to_le_bytes of a header length below 65536
U32ToLeBytes(n) == <<n % 256, n \div 256, 0, 0>>

\* u16::to_le_bytes, as test_read_pixel_data encodes its samples
U16ToLeBytes(v) == <<v % 256, v \div 256>>

\*  name="v"  and  name='v'
Attr(name, v) == <<32>> (* *) \o name \o <<61, Quote>> \o v \o <<Quote>>
AttrApos(name, v) == <<32>> (* *) \o name \o <<61, Apostrophe>> \o v \o <<Apostrophe>>

KeywordElement(attrs) == <<60,70,73,84,83,75,101,121,119,111,114,100>> (*<FITSKeyword*) \o attrs \o <<47,62>> (*/>*)
PropertyElement(id, v) ==
    <<60,80,114,111,112,101,114,116,121>> (*<Property*) \o Attr(<<105,100>> (*id*), id) \o Attr(<<116,121,112,101>> (*type*), <<83,116,114,105,110,103>> (*String*)) \o <<62>> (*>*)
    \o v \o <<60,47,80,114,111,112,101,114,116,121,62>> (*</Property>*)

\* A FITSKeyword element is described by the attributes written into it:
\* its name and the text of its value (None when the attribute is left
\* out), the number of apostrophe layers written around the text, whether
\* the value is delimited by apostrophes instead of quotes, whether value
\* precedes name, and whether a comment attribute follows.
Kw(name, value, layers, apos, swapped, comment) ==
    [name |-> name, value |-> value, layers |-> layers, apos |-> apos,
     swapped |-> swapped, comment |-> comment]

RECURSIVE Layered(_, _)
Layered(text, layers) ==
    IF layers = 0 THEN text
    ELSE <<Apostrophe>> \o Layered(text, layers - 1) \o <<Apostrophe>>

KwText(k) ==
    LET n == IF IsSome(k.name) THEN Attr(<<110,97,109,101>> (*name*), k.name[1]) ELSE << >>
        v == IF IsNone(k.value) THEN << >>
             ELSE IF k.apos THEN AttrApos(<<118,97,108,117,101>> (*value*), Layered(k.value[1], k.layers))
             ELSE Attr(<<118,97,108,117,101>> (*value*), Layered(k.value[1], k.layers))
        c == IF k.comment THEN Attr(<<99,111,109,109,101,110,116>> (*comment*), <<120>> (*x*)) ELSE << >>
    IN  KeywordElement((IF k.swapped THEN v \o n ELSE n \o v) \o c)

\* <FITSKeyword name="OBJECT" value='M31'/> and
\* <FITSKeyword name="EXPTIME" value='300.0'/>: the value between apostrophes
KwObjectApos == Kw(Some(<<79,66,74,69,67,84>> (*OBJECT*)), Some(<<77,51,49>> (*M31*)), 0, TRUE, FALSE, FALSE)
KwExptimeApos == Kw(Some(<<69,88,80,84,73,77,69>> (*EXPTIME*)), Some(<<51,48,48,46,48>> (*300.0*)), 0, TRUE, FALSE, FALSE)
\* <FITSKeyword name="OBJECT" value="'M31'" comment="x"/> and
\* <FITSKeyword name="EXPTIME" value="'300.0'"/>
KwObject == Kw(Some(<<79,66,74,69,67,84>> (*OBJECT*)), Some(<<77,51,49>> (*M31*)), 1, FALSE, FALSE, TRUE)
KwExptime == Kw(Some(<<69,88,80,84,73,77,69>> (*EXPTIME*)), Some(<<51,48,48,46,48>> (*300.0*)), 1, FALSE, FALSE, FALSE)
\* a second OBJECT, a name the mapper does not know, a keyword of the
\* mount with the attributes in the other order, and one with no value
KwObject2 == Kw(Some(<<79,66,74,69,67,84>> (*OBJECT*)), Some(<<77,52,50>> (*M42*)), 0, FALSE, FALSE, FALSE)
KwUnknown == Kw(Some(<<70,79,79,66,65,82>> (*FOOBAR*)), Some(<<49>> (*1*)), 0, FALSE, FALSE, FALSE)
KwPierside == Kw(Some(<<80,73,69,82,83,73,68,69>> (*PIERSIDE*)), Some(<<69,65,83,84>> (*EAST*)), 1, FALSE, TRUE, FALSE)
KwNoValue == Kw(Some(<<70,73,76,84,69,82>> (*FILTER*)), None, 0, FALSE, FALSE, FALSE)

KwElements ==
    {KwObjectApos, KwExptimeApos, KwObject, KwExptime, KwObject2, KwUnknown,
     KwPierside, KwNoValue}

RECURSIVE SeqsUpTo(_, _)
SeqsUpTo(S, n) ==
    IF n = 0 THEN {<< >>}
    ELSE LET shorter == SeqsUpTo(S, n - 1)
         IN  shorter \cup {Append(s, x) : s \in shorter, x \in S}

RECURSIVE Concat(_)
Concat(ss) == IF Len(ss) = 0 THEN << >> ELSE Head(ss) \o Concat(Tail(ss))

\* An Image tag is described by the attributes written into it, in order,
\* each a pair of a name and a value.
ImgText(t) ==
    <<60,73,109,97,103,101>> (*<Image*) \o Concat([i \in 1..Len(t) |-> Attr(t[i][1], t[i][2])]) \o <<62>> (*>*)

\* <Image geometry="64:64:1">, <Image id="main" geometry="64:64:1">, a tag
\* with every attribute extract_attachments looks up, and a tag with the
\* dependent attributes but not the ones they depend on
ImgBare == << <<<<103,101,111,109,101,116,114,121>> (*geometry*), <<54,52,58,54,52,58,49>> (*64:64:1*)>> >>
ImgNamed == << <<<<105,100>> (*id*), <<109,97,105,110>> (*main*)>>, <<<<103,101,111,109,101,116,114,121>> (*geometry*), <<54,52,58,54,52,58,49>> (*64:64:1*)>> >>
ImgFull ==
    << <<<<105,100>> (*id*), <<99,97,108>> (*cal*)>>, <<<<115,97,109,112,108,101,70,111,114,109,97,116>> (*sampleFormat*), <<70,108,111,97,116,51,50>> (*Float32*)>>,
       <<<<98,105,116,115,80,101,114,83,97,109,112,108,101>> (*bitsPerSample*), <<51,50>> (*32*)>>, <<<<99,111,109,112,114,101,115,115,105,111,110>> (*compression*), <<122,108,105,98>> (*zlib*)>>,
       <<<<99,111,109,112,114,101,115,115,105,111,110,80,97,114,97,109,101,116,101,114,115>> (*compressionParameters*), <<108,101,118,101,108,61,54,59,107,61,97,61,98,59,102,108,97,103>> (*level=6;k=a=b;flag*)>>,
       <<<<99,104,101,99,107,115,117,109,84,121,112,101>> (*checksumType*), <<115,104,97,49>> (*sha1*)>>, <<<<99,104,101,99,107,115,117,109>> (*checksum*), <<97,98,99>> (*abc*)>>,
       <<<<120,82,101,115,111,108,117,116,105,111,110>> (*xResolution*), <<55,50>> (*72*)>>, <<<<121,82,101,115,111,108,117,116,105,111,110>> (*yResolution*), <<120>> (*x*)>>,
       <<<<114,101,115,111,108,117,116,105,111,110,85,110,105,116>> (*resolutionUnit*), <<105,110,99,104>> (*inch*)>> >>
ImgOrphan ==
    << <<<<99,111,109,112,114,101,115,115,105,111,110,80,97,114,97,109,101,116,101,114,115>> (*compressionParameters*), <<97,61,49>> (*a=1*)>>, <<<<99,104,101,99,107,115,117,109>> (*checksum*), <<122,122,122>> (*zzz*)>>,
       <<<<98,105,116,115,80,101,114,83,97,109,112,108,101>> (*bitsPerSample*), <<97,98,99>> (*abc*)>>, <<<<121,82,101,115,111,108,117,116,105,111,110>> (*yResolution*), <<51>> (*3*)>> >>

ImgTags == {ImgBare, ImgNamed, ImgFull, ImgOrphan}

\* the location attribute value of a header for a payload at offset off
LocationText(kind, off) ==
    CASE kind = "attachment" -> <<97,116,116,97,99,104,109,101,110,116,58>> (*attachment:*) \o UsizeToString(off) \o <<58,56>> (*:8*)
      [] kind = "two_parts" -> <<97,116,116,97,99,104,109,101,110,116,58>> (*attachment:*) \o UsizeToString(off)
      [] kind = "inline" -> <<105,110,108,105,110,101,58,98,97,115,101,54,52,58,65,65,65,65>> (*inline:base64:AAAA*)
      [] kind = "unparsable" -> <<97,116,116,97,99,104,109,101,110,116,58,120,58,121>> (*attachment:x:y*)

\* The header block described by h when the payload lies at offset off:
\* bytes before the XML declaration, the declaration, the xisf and Image
\* tags with their attributes, the FITSKeyword elements, the properties,
\* further Image tags, and NUL padding.
HeaderBlock(h, off) ==
    h.pad
    \o (IF h.decl THEN <<60,63,120,109,108>> (*<?xml*) \o Attr(<<118,101,114,115,105,111,110>> (*version*), <<49,46,48>> (*1.0*)) \o <<63,62>> (*?>*) ELSE << >>)
    \o <<60,120,105,115,102>> (*<xisf*)
    \o (IF IsSome(h.version) THEN Attr(<<118,101,114,115,105,111,110>> (*version*), h.version[1]) ELSE << >>)
    \o <<62>> (*>*)
    \o <<60,73,109,97,103,101,32>> (*<Image *)
    \o (IF IsSome(h.geometry) THEN Attr(<<103,101,111,109,101,116,114,121>> (*geometry*), h.geometry[1]) ELSE << >>)
    \o (IF h.location # "none" THEN Attr(<<108,111,99,97,116,105,111,110>> (*location*), LocationText(h.location, off))
        ELSE << >>)
    \o (IF IsSome(h.block) THEN Attr(<<98,108,111,99,107,65,108,105,103,110,109,101,110,116>> (*blockAlignment*), h.block[1]) ELSE << >>)
    \o <<62>> (*>*)
    \o Concat([i \in 1..Len(h.kws) |-> KwText(h.kws[i])])
    \o <<60,47,73,109,97,103,101,62>> (*</Image>*)
    \o (IF IsSome(h.ctime) THEN PropertyElement(<<88,73,83,70,58,67,114,101,97,116,105,111,110,84,105,109,101>> (*XISF:CreationTime*), h.ctime[1])
        ELSE << >>)
    \o (IF IsSome(h.creator) THEN PropertyElement(<<88,73,83,70,58,67,114,101,97,116,111,114,65,112,112,108,105,99,97,116,105,111,110>> (*XISF:CreatorApplication*), h.creator[1])
        ELSE << >>)
    \o Concat([i \in 1..Len(h.images) |-> ImgText(h.images[i])])
    \o <<60,47,120,105,115,102,62>> (*</xisf>*)
    \o [i \in 1..h.nul |-> 0]

\* the offset of the byte after the header block (three digits long)
PayloadOffset(h) == 12 + Len(HeaderBlock(h, 100))

\* the file: signature, header length, header block, payload bytes, and
\* tail further zero bytes
XisfFile(h, bytes, tail) ==
    LET block == HeaderBlock(h, PayloadOffset(h))
    IN  [pre |-> Magic \o U32ToLeBytes(Len(block)) \o block \o bytes,
         rep |-> tail, fill |-> 0]

BaseHeader ==
    [pad |-> << >>, decl |-> TRUE, version |-> Some(<<49,46,48>> (*1.0*)), block |-> None,
     geometry |-> Some(<<50,58,50,58,49>> (*2:2:1*)), location |-> "attachment", kws |-> << >>,
     ctime |-> None, creator |-> None, images |-> << >>, nul |-> 0]

\* the samples of test_read_pixel_data as payload bytes
TestSamples == <<0, 32768, 65535, 16384>>
EncodeSamples(samples) == Concat([i \in 1..Len(samples) |-> U16ToLeBytes(samples[i])])
TestPayload == EncodeSamples(TestSamples)

\* headers that differ in their keyword elements
KeywordHeaders == {[BaseHeader EXCEPT !.kws = k] : k \in SeqsUpTo(KwElements, MaxKw)}

\* <FITSKeyword name="OBJECT" value="''M31''"/>: the value within two
\* layers of single quotes
KwObjectTwice == Kw(Some(<<79,66,74,69,67,84>> (*OBJECT*)), Some(<<77,51,49>> (*M31*)), 2, FALSE, FALSE, FALSE)

LayeredHeaders == {[BaseHeader EXCEPT !.kws = <<KwObjectTwice>>]}

\* DATE-OBS keywords: a timestamp of the fourth accepted pattern, a date
\* without a time, and a day the month does not have
KwDateObs == Kw(Some(<<68,65,84,69,45,79,66,83>> (*DATE-OBS*)), Some(<<50,48,50,51,45,48,53,45,49,53,84,49,52,58,48,48,58,48,48>> (*2023-05-15T14:00:00*)), 1, FALSE, FALSE, FALSE)
KwDateOnly == Kw(Some(<<68,65,84,69,45,79,66,83>> (*DATE-OBS*)), Some(<<50,48,50,51,45,48,53,45,49,53>> (*2023-05-15*)), 0, FALSE, FALSE, FALSE)
KwDateFeb30 == Kw(Some(<<68,65,84,69,45,79,66,83>> (*DATE-OBS*)), Some(<<50,48,50,51,45,48,50,45,51,48,84,48,48,58,48,48,58,48,48>> (*2023-02-30T00:00:00*)), 1, FALSE, FALSE, FALSE)

\* headers that differ in their DATE-OBS keywords and in the
\* XISF:CreationTime property
DateHeaders ==
    {[BaseHeader EXCEPT !.kws = k, !.ctime = c, !.creator = Some(<<80,105,120,73,110,115,105,103,104,116>> (*PixInsight*))] :
        k \in SeqsUpTo({KwDateObs, KwDateOnly, KwDateFeb30, KwObject}, MaxKw),
        c \in {None, Some(<<50,48,50,51,45,48,49,45,49,53,84,48,50,58,48,48,58,48,48,90>> (*2023-01-15T02:00:00Z*)), Some(<<121,101,115,116,101,114,100,97,121>> (*yesterday*))}}

\* headers that differ in what the XISF-specific metadata is taken from
XisfHeaders ==
    {[BaseHeader EXCEPT !.decl = d, !.version = v, !.block = b, !.ctime = c,
                        !.creator = a, !.pad = pn[1], !.nul = pn[2]] :
        d \in BOOLEAN,
        v \in {None, Some(<<49,46,48>> (*1.0*))},
        b \in {None, Some(<<52,48,57,54>> (*4096*)), Some(<<97,98,99>> (*abc*))},
        c \in {None, Some(<<50,48,50,51,45,48,49,45,49,53,84,48,50,58,48,48,58,48,48,90>> (*2023-01-15T02:00:00Z*)), Some(<<121,101,115,116,101,114,100,97,121>> (*yesterday*))},
        a \in {None, Some(<<80,105,120,73,110,115,105,103,104,116>> (*PixInsight*))},
        pn \in {<< << >>, 0 >>, << <<32, 255>>, 3 >>}}

\* headers whose xisf element carries a version other than that of the XML
\* declaration, with and without the declaration
VersionHeaders ==
    {[BaseHeader EXCEPT !.decl = d, !.version = Some(<<50,46,48>> (*2.0*))] : d \in BOOLEAN}

\* headers that differ in the Image tags that follow the first one
AttachmentHeaders == {[BaseHeader EXCEPT !.images = t] : t \in SeqsUpTo(ImgTags, MaxImg)}

\* headers that differ in geometry and location
LocationHeaders ==
    {[BaseHeader EXCEPT !.geometry = g, !.location = l] :
        g \in {None, Some(<<50,58,50,58,49>> (*2:2:1*)), Some(<<50>> (*2*)), Some(<<120,58,50>> (*x:2*)), Some(<<50,58,49>> (*2:1*))},
        l \in {"none", "attachment", "two_parts", "inline", "unparsable"}}

\* a file large enough for the hardcoded offset and size
LargeTail == DefaultDataOffset + DefaultDataSize

\* files with a damaged envelope: cut short, another signature, or a
\* header length that is too large
Truncated(f, n) == [f EXCEPT !.pre = SubSeq(f.pre, 1, n)]
WithSignature(f, sig) == [f EXCEPT !.pre = sig \o SubSeq(f.pre, 9, Len(f.pre))]

\* An input is a file together with the description of the header it was
\* assembled from.
Input(h, f) == [header |-> h, file |-> f]

\* a file long enough for the fixed range of load_xisf whose header length
\* field (2^25) is more than the file holds
OverstatedHeader ==
    LET f == XisfFile(BaseHeader, TestPayload, LargeTail)
    IN  [f EXCEPT !.pre = SubSeq(f.pre, 1, 8) \o <<0, 0, 0, 2>>
                             \o SubSeq(f.pre, 13, Len(f.pre))]

DamagedFiles ==
    LET f == XisfFile(BaseHeader, TestPayload, 0)
        hs == Len(HeaderBlock(BaseHeader, PayloadOffset(BaseHeader)))
    IN  {Input(BaseHeader, Truncated(f, n)) : n \in {0, 4, 7, 8, 10, 12, 12 + hs - 1}}
        \cup {Input(BaseHeader, g) : g \in
                {WithSignature(f, <<88,73,83,70,48,49,48,49>> (*XISF0101*)), WithSignature(f, <<83,73,77,80,76,69,32,32>> (*SIMPLE  *)),
                 WithSignature(Truncated(f, 8), <<120,105,115,102,48,49,48,48>> (*xisf0100*)),
                 [WithSignature(f, <<88,73,83,70,48,50,48,48>> (*XISF0200*)) EXCEPT !.rep = LargeTail],
                 OverstatedHeader}}

MetaInputs ==
    {Input(h, XisfFile(h, TestPayload, 0)) :
        h \in KeywordHeaders \cup LayeredHeaders \cup DateHeaders \cup XisfHeaders
                  \cup VersionHeaders \cup AttachmentHeaders}
    \cup DamagedFiles

LoadInputs ==
    {Input(h, XisfFile(h, bytes, tail)) :
        h \in LocationHeaders,
        bytes \in {TestPayload, SubSeq(TestPayload, 1, 3)},
        tail \in {0, LargeTail}}
    \cup DamagedFiles

Init ==
    \/ \E i \in MetaInputs : Start("extract_metadata", i)
    \/ \E i \in LoadInputs : Start("load_xisf", i)

Next ==
    \/ MetaReadSignature
    \/ MetaReadHeaderSize
    \/ MetaExtractXmlContent
    \/ ExtractFitsKeywords
    \/ ExtractXmlAttributes
    \/ ExtractXisfMetadata
    \/ ExtractColorManagement
    \/ ExtractAttachments
    \/ MetaFinish
    \/ LoadReadSignature
    \/ LoadReadHeaderSize
    \/ LoadExtractXmlContent
    \/ LoadLocate
    \/ LoadSeek
    \/ LoadReadData
    \/ LoadDecode

Spec == Init /\ [][Next]_vars

\* a file whose header length field ends the header block n bytes after
\* the first prefix open, inside the element
CutAfter(h, open, n) ==
    LET f == XisfFile(h, TestPayload, 0)
        block == HeaderBlock(h, PayloadOffset(h))
        size == StrFind(block, open)[1] + Len(open) + n
    IN  [f EXCEPT !.pre = SubSeq(f.pre, 1, 8) \o U32ToLeBytes(size)
                             \o SubSeq(f.pre, 13, Len(f.pre))]

\* headers with no, one and two FITSKeyword elements and further Image
\* tags, and header blocks that end inside a FITSKeyword element and
\* inside the Image tag
ScanHeaders ==
    {[BaseHeader EXCEPT !.kws = k, !.images = t] :
        k \in {<< >>, <<KwObject>>, <<KwObject, KwNoValue>>},
        t \in {<< >>, <<ImgBare>>, <<ImgNamed, ImgOrphan>>}}

ScanInputs ==
    LET h == [BaseHeader EXCEPT !.kws = <<KwObject>>]
    IN  {Input(s, XisfFile(s, TestPayload, 0)) : s \in ScanHeaders}
        \cup {Input(h, CutAfter(h, <<60,70,73,84,83,75,101,121,119,111,114,100,32>> (*<FITSKeyword *), 6)),
              Input(h, CutAfter(h, <<60,73,109,97,103,101,32>> (*<Image *), 6))}

InitLive ==
    \/ \E i \in ScanInputs : Start("extract_metadata", i)
    \/ Start("load_xisf", Input(BaseHeader, XisfFile(BaseHeader, TestPayload, 0)))

\* the call has returned: no step of Next is left
Returned == pc = "done"

\* The program takes its next step whenever it has one: weak fairness of
\* Next, WF_vars(Next), written as []<>(~ENABLED <<Next>>_vars) \/
\* []<><<Next>>_vars with the enabling condition of Next, ~Returned,
\* spelled out.
SpecLive == InitLive /\ [][Next]_vars /\ ([]<>Returned \/ []<><<Next>>_vars)

(***************************************************************************)
(* read_pixel_data called on its own, as the tests of xisf.rs call it.     *)
(***************************************************************************)
\* the byte values the generated buffers are made of
PixelBytes == {0, 255}

\* the buffers handed to read_pixel_data: every byte sequence of up to
\* 2 * MaxPix bytes, the encoded samples of test_read_pixel_data and its
\* prefixes, and runs of equal bytes
PixelBuffers ==
    {Explicit(s) : s \in SeqsUpTo(PixelBytes, 2 * MaxPix)}
    \cup {Explicit(SubSeq(TestPayload, 1, n)) : n \in 0..Len(TestPayload)}
    \cup {[pre |-> s, rep |-> r, fill |-> b] :
            s \in {<< >>, <<1>>, <<1, 2>>}, r \in {1, 2 * MaxPix}, b \in {0, 128}}

PixelArgs ==
    {[data |-> d, width |-> w, height |-> h] :
        d \in PixelBuffers, w \in 0..MaxDim, h \in 0..MaxDim}

\* the state on entry to a function called on its own with arguments a
StartCall(o, a) ==
    /\ op = o
    /\ pc = "call"
    /\ file = Explicit(<< >>)
    /\ cursor = 0
    /\ io_log = << >>
    /\ header_size = None
    /\ xml = None
    /\ pos = 0
    /\ metadata = DefaultAstroMetadata
    /\ raw_headers = EmptyMap
    /\ xisf_metadata = InitialXisfMetadata
    /\ attachments = << >>
    /\ payload = NoPayload
    /\ data = None
    /\ args = a
    /\ observed = {}
    /\ result = None

InitPixel == \E a \in PixelArgs : StartCall("read_pixel_data", a)

PixelDecode ==
    /\ op = "read_pixel_data"
    /\ pc = "call"
    /\ result' = Ok(read_pixel_data(args.data, args.width, args.height))
    /\ pc' = "done"
    /\ UNCHANGED <<op, file, ioVars, header_size, xml, pos, metaVars, loadVars, args,
                   observed>>

NextPixel == PixelDecode

SpecPixel == InitPixel /\ [][NextPixel]_vars

(***************************************************************************)
(* The keyword mapper and the property lookups applied to a sequence of    *)
(* keywords and headers, one at a time, on one metadata record.            *)
(***************************************************************************)
\* longest sequence of keywords and headers handed to the mapper
MaxSteps == 2

\* the names process_fits_keyword writes into the mount, the environment
\* and the WCS data
MountKeys ==
    {<<80,73,69,82,83,73,68,69>> (*PIERSIDE*), <<83,73,84,69,76,65,84>> (*SITELAT*), <<79,66,83,76,65,84>> (*OBSLAT*), <<83,73,84,69,76,79,78,71>> (*SITELONG*), <<79,66,83,76,79,78,71>> (*OBSLONG*),
     <<83,73,84,69,69,76,69,86>> (*SITEELEV*), <<79,66,83,69,76,69,86>> (*OBSELEV*), <<80,69,65,75,82,65>> (*PEAKRA*), <<80,69,65,75,82,65,69,82>> (*PEAKRAER*), <<80,69,65,75,68,69,67>> (*PEAKDEC*),
     <<80,69,65,75,68,67,69,82>> (*PEAKDCER*)}
EnvironmentKeys ==
    {<<65,77,66,95,84,69,77,80>> (*AMB_TEMP*), <<65,77,66,84,69,77,80>> (*AMBTEMP*), <<72,85,77,73,68,73,84,89>> (*HUMIDITY*), <<83,81,77>> (*SQM*), <<83,81,77,77,65,71>> (*SQMMAG*), <<83,75,89,81,85,65,76>> (*SKYQUAL*),
     <<88,73,83,70,58,67,114,101,97,116,111,114,65,112,112,108,105,99,97,116,105,111,110>> (*XISF:CreatorApplication*)}
WcsKeys == {<<67,82,80,73,88,49>> (*CRPIX1*), <<67,82,80,73,88,50>> (*CRPIX2*)}

\* the names and values handed to the mapper: the keys above, a keyword of
\* the exposure, the WCS reference values, and a name it does not know; a
\* value that parses as a number and one that does not
MapperNames ==
    (MountKeys \cup EnvironmentKeys \cup WcsKeys \cup {<<79,66,74,69,67,84>> (*OBJECT*), <<67,82,86,65,76,49>> (*CRVAL1*), <<67,82,86,65,76,50>> (*CRVAL2*), <<70,79,79,66,65,82>> (*FOOBAR*)})
    \ {<<88,73,83,70,58,67,114,101,97,116,111,114,65,112,112,108,105,99,97,116,105,111,110>> (*XISF:CreatorApplication*)}
MapperValues == {<<49,46,53>> (*1.5*), <<69,65,83,84>> (*EAST*)}

\* the headers whose properties are looked up
PropertyHeaders ==
    {[BaseHeader EXCEPT !.ctime = c, !.creator = a] :
        c \in {None, Some(<<50,48,50,51,45,48,49,45,49,53,84,48,50,58,48,48,58,48,48,90>> (*2023-01-15T02:00:00Z*))},
        a \in {None, Some(<<80,105,120,73,110,115,105,103,104,116>> (*PixInsight*))}}

InitMapper == StartCall("process_fits_keyword", << >>)

MapperKeyword ==
    /\ op = "process_fits_keyword"
    /\ pos < MaxSteps
    /\ \E name \in MapperNames, value \in MapperValues :
          /\ metadata' = process_fits_keyword(metadata, name, value)
          /\ observed' = observed \cup {name}
    /\ pos' = pos + 1
    /\ UNCHANGED <<op, pc, file, ioVars, header_size, xml, raw_headers, xisf_metadata,
                   attachments, loadVars, args, result>>

MapperProperties ==
    /\ op = "process_fits_keyword"
    /\ pos < MaxSteps
    /\ \E h \in PropertyHeaders :
          /\ metadata' = extract_xml_attributes(HeaderBlock(h, 100), metadata)
          /\ observed' = observed
                \cup (IF IsSome(h.ctime) THEN {<<88,73,83,70,58,67,114,101,97,116,105,111,110,84,105,109,101>> (*XISF:CreationTime*)} ELSE {})
                \cup (IF IsSome(h.creator) THEN {<<88,73,83,70,58,67,114,101,97,116,111,114,65,112,112,108,105,99,97,116,105,111,110>> (*XISF:CreatorApplication*)} ELSE {})
    /\ pos' = pos + 1
    /\ UNCHANGED <<op, pc, file, ioVars, header_size, xml, raw_headers, xisf_metadata,
                   attachments, loadVars, args, result>>

NextMapper == MapperKeyword \/ MapperProperties

SpecMapper == InitMapper /\ [][NextMapper]_vars

(***************************************************************************)
(* The input of the running call, read off the file itself.                *)
(***************************************************************************)
SignatureReadable == BufLen(file) >= 8
FileSignature == [i \in 1..8 |-> BufAt(file, i - 1)]
\* the four bytes after the signature as a little-endian number
FileHeaderSize ==
    BufAt(file, 8) + 256 * BufAt(file, 9) + 65536 * BufAt(file, 10)
    + 16777216 * BufAt(file, 11)
EnvelopeValid == BufLen(file) >= 12 /\ FileSignature = Magic
HeaderReadable == EnvelopeValid /\ BufLen(file) >= 12 + FileHeaderSize
ReadRecord(at, len) == [kind |-> "read", at |-> at, len |-> len, ok |-> TRUE]

(***************************************************************************)
(* Properties.                                                             *)
(***************************************************************************)
\* C1: when the first 8 bytes can be read and are not "XISF0100", both
\* extract_metadata and load_xisf return the error "Invalid XISF signature",
\* which wraps no I/O error (the errors of failed reads do); nothing was
\* written to a metadata record or a pixel buffer, and the read of the 8
\* bytes is the only access to the input.
C1_InvalidSignatureFails ==
    (op \in {"extract_metadata", "load_xisf"} /\ SignatureReadable
     /\ FileSignature # Magic) =>
        /\ pc \in {"signature", "done"}
        /\ pc = "done" =>
              /\ result = Err("Invalid XISF signature", FALSE)
              /\ io_log = <<ReadRecord(0, 8)>>
              /\ cursor = 8
              /\ metadata = DefaultAstroMetadata
              /\ raw_headers = EmptyMap
              /\ xml = None /\ data = None /\ payload = NoPayload

\* load_xisf has returned for a file with another signature that holds
\* enough bytes for a header and a payload
C1_Witness ==
    /\ op = "load_xisf" /\ pc = "done"
    /\ FileSignature = <<88,73,83,70,48,50,48,48>> (*XISF0200*)
    /\ BufLen(file) > LargeTail
    /\ result = Err("Invalid XISF signature", FALSE)

\* C2: as the claim states it: when the envelope is valid and fewer than
\* header_size bytes follow it, extract_metadata returns an error.
C2_TruncatedHeaderIsFatal ==
    (op = "extract_metadata" /\ pc = "done" /\ EnvelopeValid
     /\ BufLen(file) < 12 + FileHeaderSize) =>
        ~result[1].ok

\* extract_metadata has returned Ok for a file cut inside its header: the
\* record holds the defaults and an XISF metadata of version "1.0"
C2_Witness ==
    /\ op = "extract_metadata" /\ pc = "done" /\ EnvelopeValid
    /\ 12 < BufLen(file) /\ BufLen(file) < 12 + FileHeaderSize
    /\ result = Ok([DefaultAstroMetadata EXCEPT !.xisf = Some(InitialXisfMetadata)])

\* C3: for a valid envelope followed by at least header_size bytes, once
\* extract_metadata is past the header extraction the cursor is at
\* 12 + header_size, and the header bytes were read by one read of
\* header_size bytes at offset 12, after the reads of the envelope.
C3_HeaderConsumedOnce ==
    (op = "extract_metadata" /\ HeaderReadable
     /\ pc \notin {"signature", "header_size", "xml_content"}) =>
        /\ cursor = 12 + FileHeaderSize
        /\ header_size = Some(FileHeaderSize)
        /\ io_log = <<ReadRecord(0, 8), ReadRecord(8, 4), ReadRecord(12, FileHeaderSize)>>
        /\ IsSome(xml)

\* the header extraction has just finished on a file with bytes after a
\* header that is not empty
C3_Witness ==
    /\ op = "extract_metadata" /\ pc = "fits_keywords" /\ pos = 0
    /\ HeaderReadable /\ FileHeaderSize > 0
    /\ BufLen(file) > 12 + FileHeaderSize
    /\ cursor = 12 + FileHeaderSize

\* C4: when the buffer holds fewer than width*height*2 bytes (a product
\* that fits a usize), read_pixel_data returns Ok with exactly width*height
\* samples, all of them zero.
C4_InsufficientDataYieldsZeros ==
    (op = "read_pixel_data" /\ pc = "done"
     /\ BufLen(args.data) < args.width * args.height * 2) =>
        /\ result[1].ok
        /\ BufLen(result[1].value) = args.width * args.height
        /\ \A i \in 0..(args.width * args.height - 1) :
              BufAt(result[1].value, i) = [n |-> 0, d |-> 1]

\* a 2x2 image decoded from seven bytes that are not all zero
C4_Witness ==
    /\ op = "read_pixel_data" /\ pc = "done"
    /\ args.width = 2 /\ args.height = 2
    /\ BufLen(args.data) = 7 /\ BufAt(args.data, 0) = 255
    /\ result[1].ok /\ BufLen(result[1].value) = 4

\* the default geometry and location of load_xisf, as numbers
FallbackPayload ==
    [from_markup |-> FALSE, width |-> 3856, height |-> 2180,
     data_offset |-> 28672, data_size |-> 16812160]

\* whether the header described by h gives load_xisf a geometry of at least
\* two colon-separated parts and an attachment location of at least three
HasColon(text) == \E i \in 1..Len(text) : text[i] = Colon
Determined(h) ==
    /\ IsSome(h.geometry) /\ HasColon(h.geometry[1])
    /\ h.location \in {"attachment", "unparsable"}

\* C5, amended: when load_xisf cannot take the payload location from the
\* markup, it seeks to offset 28672 and reads 16812160 bytes; it returns
\* (pixels, 3856, 2180) with 3856*2180 samples when the file holds these
\* bytes, and the I/O error "Failed to read image data" when it does not.
C5_FallbackReadsFixedRange ==
    (op = "load_xisf" /\ HeaderReadable /\ ~Determined(args)) =>
        /\ pc \in {"seek", "read_data", "decode", "done"} => payload = FallbackPayload
        /\ pc = "done" =>
              IF BufLen(file) >= 28672 + 16812160
              THEN /\ result[1].ok
                   /\ result[1].value.width = 3856
                   /\ result[1].value.height = 2180
                   /\ BufLen(result[1].value.pixels) = 3856 * 2180
              ELSE result = Err("Failed to read image data", TRUE)

\* load_xisf has returned the default geometry for a header with an inline
\* location, from a file long enough for the default range
C5_Witness ==
    /\ op = "load_xisf" /\ pc = "done" /\ HeaderReadable
    /\ args.location = "inline"
    /\ BufLen(file) >= 28672 + 16812160
    /\ result[1].ok /\ result[1].value.width = 3856 /\ result[1].value.height = 2180

\* C5 as the claim states it: whenever the location cannot be taken from
\* the markup, load_xisf returns (pixels, 3856, 2180) and no error.
C5_FallbackNeverFails ==
    (op = "load_xisf" /\ pc = "done" /\ HeaderReadable /\ ~Determined(args)) =>
        /\ result[1].ok
        /\ result[1].value.width = 3856
        /\ result[1].value.height = 2180

\* C6: when the buffer holds at least width*height*2 bytes, read_pixel_data
\* returns exactly width*height samples, sample i being
\* (data[2i] + 256*data[2i+1]) / 65535: a number of [0, 1], 0 for the value
\* 0 and 1 for the value 65535, whatever bytes follow the first
\* width*height*2.
C6_LittleEndianNormalised ==
    (op = "read_pixel_data" /\ pc = "done"
     /\ BufLen(args.data) >= args.width * args.height * 2) =>
        /\ result[1].ok
        /\ BufLen(result[1].value) = args.width * args.height
        /\ \A i \in 0..(args.width * args.height - 1) :
              LET sample == BufAt(result[1].value, i)
                  value == BufAt(args.data, 2 * i) + 256 * BufAt(args.data, 2 * i + 1)
              IN  /\ sample.d > 0 /\ 65535 % sample.d = 0
                  /\ sample.n * (65535 \div sample.d) = value
                  /\ 0 <= sample.n /\ sample.n <= sample.d
                  /\ value = 0 => sample = [n |-> 0, d |-> 1]
                  /\ value = 65535 => sample = [n |-> 1, d |-> 1]

\* the samples 0, 32768, 65535, 16384 of test_read_pixel_data decoded as a
\* 2x2 image: 0, 32768/65535, 1, 16384/65535
C6_Witness ==
    /\ op = "read_pixel_data" /\ pc = "done"
    /\ args.data = Explicit(TestPayload) /\ args.width = 2 /\ args.height = 2
    /\ result = Ok([pre |-> <<[n |-> 0, d |-> 1], [n |-> 32768, d |-> 65535],
                              [n |-> 1, d |-> 1], [n |-> 16384, d |-> 65535]>>,
                    rep |-> 0, fill |-> [n |-> 0, d |-> 1]])

\* C7, amended: a header whose FITSKeyword elements are
\* <FITSKeyword name="OBJECT" value="'M31'" .../> and
\* <FITSKeyword name="EXPTIME" value="'300.0'"/>, the values delimited by
\* double quotes around the apostrophes, makes extract_metadata yield
\* exposure.object_name = "M31" and exposure.exposure_time = 300.0 and a raw
\* header map of OBJECT -> M31 and EXPTIME -> 300.0; with the values
\* delimited as value='M31' and value='300.0' both elements are skipped:
\* the two fields stay absent and the raw header map stays empty.
C7_QuotedKeywordsMapped ==
    (op = "extract_metadata" /\ pc = "done") =>
        /\ args.kws = <<KwObject, KwExptime>> =>
              /\ result[1].ok
              /\ result[1].value.exposure.object_name = Some(<<77,51,49>> (*M31*))
              /\ result[1].value.exposure.exposure_time = Some([n |-> 300, d |-> 1])
              /\ result[1].value.raw_headers =
                    (<<79,66,74,69,67,84>> (*OBJECT*) :> <<77,51,49>> (*M31*)) @@ (<<69,88,80,84,73,77,69>> (*EXPTIME*) :> <<51,48,48,46,48>> (*300.0*))
        /\ args.kws = <<KwObjectApos, KwExptimeApos>> =>
              /\ result[1].ok
              /\ result[1].value.exposure.object_name = None
              /\ result[1].value.exposure.exposure_time = None
              /\ result[1].value.raw_headers = EmptyMap

\* extract_metadata has returned for the header with the two elements whose
\* values are delimited by double quotes
C7_Witness ==
    /\ op = "extract_metadata" /\ pc = "done"
    /\ args.kws = <<KwObject, KwExptime>>
    /\ result[1].ok
    /\ result[1].value.exposure.object_name = Some(<<77,51,49>> (*M31*))

\* C7 as the claim states it: the two elements with value='M31' and
\* value='300.0' yield object_name = "M31", exposure_time = 300.0 and the
\* two entries of the raw header map.
C7_ApostropheKeywordsMapped ==
    (op = "extract_metadata" /\ pc = "done"
     /\ args.kws = <<KwObjectApos, KwExptimeApos>>) =>
        /\ result[1].ok
        /\ result[1].value.exposure.object_name = Some(<<77,51,49>> (*M31*))
        /\ result[1].value.exposure.exposure_time = Some([n |-> 300, d |-> 1])
        /\ result[1].value.raw_headers =
              (<<79,66,74,69,67,84>> (*OBJECT*) :> <<77,51,49>> (*M31*)) @@ (<<69,88,80,84,73,77,69>> (*EXPTIME*) :> <<51,48,48,46,48>> (*300.0*))

\* an element the attribute lookup finds a name and a value in: both are
\* written as attribute="text"
Recognised(k) == IsSome(k.name) /\ IsSome(k.value) /\ ~k.apos
Max(S) == CHOOSE x \in S : \A y \in S : y <= x

\* C8: after extract_metadata, every FITSKeyword element of the header with
\* a name and a value attribute (written name="..." and value="...") has
\* its name as a key of the raw header map, whether the mapper knows the
\* name or not, and the key holds the value of the last element of that
\* name in document order.
C8_RawHeadersRetainAll ==
    (op = "extract_metadata" /\ pc = "done" /\ HeaderReadable) =>
        /\ result[1].ok
        /\ \A i \in 1..Len(args.kws) :
              Recognised(args.kws[i]) =>
                 LET name == args.kws[i].name[1]
                     last == Max({j \in 1..Len(args.kws) :
                                    /\ Recognised(args.kws[j])
                                    /\ args.kws[j].name[1] = name})
                 IN  /\ name \in DOMAIN result[1].value.raw_headers
                     /\ result[1].value.raw_headers[name] = args.kws[last].value[1]

\* extract_metadata has returned for a header with two OBJECT elements of
\* different values
C8_Witness ==
    /\ op = "extract_metadata" /\ pc = "done"
    /\ args.kws = <<KwObject, KwObject2>>
    /\ result[1].ok
    /\ result[1].value.raw_headers = (<<79,66,74,69,67,84>> (*OBJECT*) :> <<77,52,50>> (*M42*))

NoXisfKeys(h) ==
    /\ ~h.decl /\ IsNone(h.version) /\ IsNone(h.block)
    /\ IsNone(h.ctime) /\ IsNone(h.creator)

\* C10, amended: the record extract_metadata returns always has the XISF
\* metadata; for a header with no version attribute, no blockAlignment
\* attribute and neither property it holds the version "1.0" and no
\* creator, creation time or block alignment.
C10_XisfAlwaysPresent ==
    (op = "extract_metadata" /\ pc = "done" /\ result[1].ok) =>
        /\ IsSome(result[1].value.xisf)
        /\ (HeaderReadable /\ NoXisfKeys(args)) =>
              result[1].value.xisf =
                  Some([version |-> <<49,46,48>> (*1.0*), creator |-> None,
                        creation_time |-> None, block_alignment |-> None])

\* extract_metadata has returned for a header with none of the keys
C10_Witness ==
    /\ op = "extract_metadata" /\ pc = "done"
    /\ HeaderReadable /\ NoXisfKeys(args)
    /\ result[1].ok /\ IsSome(result[1].value.xisf)

\* C10 as the claim states it: for a header with none of the keys the
\* record has no XISF metadata.
C10_AbsentWithoutKeys ==
    (op = "extract_metadata" /\ pc = "done" /\ HeaderReadable /\ NoXisfKeys(args)) =>
        /\ result[1].ok
        /\ IsNone(result[1].value.xisf)

\* the Image tags of the header described by h in document order: the
\* first one, which carries the geometry and the location, and the further
\* ones
MainImage(h) ==
    (IF IsSome(h.geometry) THEN << <<<<103,101,111,109,101,116,114,121>> (*geometry*), h.geometry[1]>> >> ELSE << >>)
    \o (IF h.location # "none"
        THEN << <<<<108,111,99,97,116,105,111,110>> (*location*), LocationText(h.location, PayloadOffset(h))>> >>
        ELSE << >>)
    \o (IF IsSome(h.block) THEN << <<<<98,108,111,99,107,65,108,105,103,110,109,101,110,116>> (*blockAlignment*), h.block[1]>> >> ELSE << >>)
HeaderImages(h) == <<MainImage(h)>> \o h.images

\* the value of the attribute name in the attribute list t, if it has one
AttrOf(t, name) ==
    LET hits == {i \in 1..Len(t) : t[i][1] = name}
    IN  IF hits = {} THEN None ELSE Some(t[Min(hits)][2])

\* C11: extract_attachments builds one descriptor per Image opening tag, in
\* document order, and the k-th descriptor is what the k-th tag alone
\* yields: its identifier, compression, checksum type and resolution unit
\* are those written on that tag or absent, whatever the other tags carry.
C11_OneDescriptorPerTag ==
    (op = "extract_metadata" /\ pc = "done" /\ HeaderReadable) =>
        LET tags == HeaderImages(args)
            found == result[1].value.attachments
        IN  /\ result[1].ok
            /\ Len(found) = Len(tags)
            /\ \A k \in 1..Len(tags) :
                  /\ found[k] = AttachmentOfTag(ImgText(tags[k]), k - 1)
                  /\ IsSome(AttrOf(tags[k], <<105,100>> (*id*))) =>
                        found[k].id = AttrOf(tags[k], <<105,100>> (*id*))[1]
                  /\ found[k].compression = AttrOf(tags[k], <<99,111,109,112,114,101,115,115,105,111,110>> (*compression*))
                  /\ found[k].checksum_type = AttrOf(tags[k], <<99,104,101,99,107,115,117,109,84,121,112,101>> (*checksumType*))
                  /\ IsNone(AttrOf(tags[k], <<114,101,115,111,108,117,116,105,111,110,85,110,105,116>> (*resolutionUnit*))) =>
                        IsNone(found[k].resolution_unit)
                  /\ IsNone(AttrOf(tags[k], <<99,104,101,99,107,115,117,109>> (*checksum*))) => IsNone(found[k].checksum)

\* extract_metadata has returned for a header whose second Image tag has
\* every attribute and whose first and third have only a few
C11_Witness ==
    /\ op = "extract_metadata" /\ pc = "done" /\ HeaderReadable
    /\ args.images = <<ImgFull, ImgBare>>
    /\ Len(result[1].value.attachments) = 3
    /\ result[1].value.attachments[2].compression = Some(<<122,108,105,98>> (*zlib*))
    /\ result[1].value.attachments[3].compression = None
    /\ result[1].value.attachments[1].checksum_type = None

C13_SplitOnFirstEquals ==
    (op = "extract_metadata" /\ pc = "done" /\ HeaderReadable) =>
        \A k \in 1..Len(HeaderImages(args)) :
            (/\ IsSome(AttrOf(HeaderImages(args)[k], <<99,111,109,112,114,101,115,115,105,111,110>> (*compression*)))
             /\ AttrOf(HeaderImages(args)[k], <<99,111,109,112,114,101,115,115,105,111,110,80,97,114,97,109,101,116,101,114,115>> (*compressionParameters*))
                    = Some(<<108,101,118,101,108,61,54,59,107,61,97,61,98,59,102,108,97,103>> (*level=6;k=a=b;flag*))) =>
                result[1].value.attachments[k].compression_parameters
                    = (<<108,101,118,101,108>> (*level*) :> <<54>> (*6*)) @@ (<<107>> (*k*) :> <<97,61,98>> (*a=b*))

\* extract_metadata has returned for a tag with the parameters
\* "level=6;k=a=b;flag": the descriptor holds level -> "6" and nothing else
C13_Witness ==
    /\ op = "extract_metadata" /\ pc = "done" /\ HeaderReadable
    /\ args.images = <<ImgFull>>
    /\ result[1].value.attachments[2].compression_parameters = (<<108,101,118,101,108>> (*level*) :> <<54>> (*6*))

(***************************************************************************)
(* Specification SpecCalls: the functions of types.rs and xisf_parser.rs   *)
(* that take their whole input as arguments, each called once on inputs    *)
(* drawn from small sets.                                                  *)
(***************************************************************************)
StartOn(o, a, md) ==
    /\ op = o
    /\ pc = "call"
    /\ file = Explicit(<< >>)
    /\ cursor = 0
    /\ io_log = << >>
    /\ header_size = None
    /\ xml = None
    /\ pos = 0
    /\ metadata = md
    /\ raw_headers = EmptyMap
    /\ xisf_metadata = InitialXisfMetadata
    /\ attachments = << >>
    /\ payload = NoPayload
    /\ data = None
    /\ args = a
    /\ observed = {}
    /\ result = None

\* 2023-05-15 (the date of test_calculate_session_date) as days since
\* 1970-01-01
TestDay == 19492

SessionDays == {0, TestDay, TestDay + 1}

SessionSecs == {0, 7200, 43199, 43200, 50400, 86399}

SessionNanos == {0, 500}

SessionDates ==
    {None} \cup {Some([days |-> d, secs |-> s, nanos |-> n]) :
                    d \in SessionDays, s \in SessionSecs, n \in SessionNanos}

SessionLongitudes ==
    {Rat(-75, 1), Rat(0, 1), Rat(7, 1), Rat(15, 1), Rat(255, 2), Rat(-15, 2),
     Rat(180, 1), Rat(-345, 2)}

SessionMounts ==
    {None, Some(DefaultMount)}
        \cup {Some([DefaultMount EXCEPT !.longitude = Some(q)]) : q \in SessionLongitudes}

SessionArgs == [date_obs : SessionDates, mount : SessionMounts]

\* records that already hold a session date, with and without date_obs
StaleArgs ==
    [date_obs : {None, Some([days |-> TestDay, secs |-> 7200, nanos |-> 0])},
     mount : {None},
     session_date : {Some([days |-> 0, secs |-> 43200, nanos |-> 0])}]

SessionRecord(a) ==
    [DefaultAstroMetadata EXCEPT !.exposure.date_obs = a.date_obs, !.mount = a.mount]

\* header blocks: padding, then possibly the declaration marker, then a tail
BlockPads == {<< >>, <<97,98>> (*ab*), <<97, 0>>, <<200>>, <<60,63,120,109>> (*<?xm*)}

BlockTails == {<< >>, <<32,118,63,62>> (* v?>*), <<32, 118, 0, 0>>, <<0, 120>>, <<62, 233>>}

LateMarkerTail == <<62,32,60,63,120,109,108,62>> (*> <?xml>*)

BlockArgs ==
    [pad : BlockPads, marker : BOOLEAN, tail : BlockTails, short : BOOLEAN]
        \cup [pad : BlockPads, marker : {TRUE}, tail : {LateMarkerTail}, short : {FALSE}]

BlockText(a) == a.pad \o (IF a.marker THEN <<60,63,120,109,108>> (*<?xml*) ELSE << >>) \o a.tail

\* a reader holding the block, and a header size of the block's length, or
\* one more than the reader holds
StartXmlContent(a) ==
    /\ op = "extract_xml_content"
    /\ pc = "xml_content"
    /\ file = Explicit(BlockText(a))
    /\ cursor = 0
    /\ io_log = << >>
    /\ header_size = Some(Len(BlockText(a)) + (IF a.short THEN 1 ELSE 0))
    /\ xml = None
    /\ pos = 0
    /\ metadata = DefaultAstroMetadata
    /\ raw_headers = EmptyMap
    /\ xisf_metadata = InitialXisfMetadata
    /\ attachments = << >>
    /\ payload = NoPayload
    /\ data = None
    /\ args = a
    /\ observed = {}
    /\ result = None

\* tags for the attribute lookups: up to MaxAttrs different attributes of
\* the pool, in any order
MaxAttrs == 3

TagPool ==
    {<<<<105,100>> (*id*), <<109,97,105,110>> (*main*)>>, <<<<103,101,111,109,101,116,114,121>> (*geometry*), <<49,48,48,58,53,48,58,49>> (*100:50:1*)>>,
     <<<<71,101,111,109,101,116,114,121>> (*Geometry*), <<57,58,57,58,49>> (*9:9:1*)>>, <<<<117,105,100>> (*uid*), <<117,55>> (*u7*)>>,
     <<<<105,100>> (*id*), <<115,101,99,111,110,100>> (*second*)>>, <<<<114,101,102,95,103,101,111,109,101,116,114,121>> (*ref_geometry*), <<55,58,57,58,49>> (*7:9:1*)>>,
     <<<<108,111,99,97,116,105,111,110>> (*location*), <<97,116,116,97,99,104,109,101,110,116,58,54,52,58,56>> (*attachment:64:8*)>>}

TagLists ==
    {t \in SeqsUpTo(TagPool, MaxAttrs) : \A i, j \in 1..Len(t) : i # j => t[i] # t[j]}

LookupNames == {<<105,100>> (*id*), <<73,68>> (*ID*), <<103,101,111,109,101,116,114,121>> (*geometry*), <<117,105,100>> (*uid*), <<110,111,110,101,120,105,115,116,101,110,116>> (*nonexistent*), <<120>> (*x*)}

\* a tag, or the tag cut off inside the value of a last attribute x
LookupArgs == [tag : TagLists, name : LookupNames, cut : BOOLEAN]

LookupText(a) ==
    IF a.cut
    THEN <<60,73,109,97,103,101>> (*<Image*) \o Concat([i \in 1..Len(a.tag) |-> Attr(a.tag[i][1], a.tag[i][2])])
             \o <<32,120,61>> (* x=*) \o <<Quote>> \o <<97,98,99>> (*abc*)
    ELSE ImgText(a.tag)

\* values for parse_sexagesimal: up to four tokens, the i-th drawn from the
\* i-th pool, after a lead and joined by a separator
TokenPools ==
    << {<<49,48>> (*10*), <<45,49,48>> (*-10*), <<45,48>> (*-0*), <<48>> (*0*), <<49,46,53>> (*1.5*), <<97,98,99>> (*abc*)},
       {<<51,48>> (*30*), <<45,51,48>> (*-30*), <<120>> (*x*)},
       {<<48>> (*0*), <<51,54>> (*36*), <<49,46,56>> (*1.8*)},
       {<<55>> (*7*)} >>

TokenLists ==
    UNION {{t \in [1..n -> UNION {TokenPools[i] : i \in 1..4}] :
               \A i \in 1..n : t[i] \in TokenPools[i]} : n \in 0..4}

SexagesimalArgs == [tokens : TokenLists, lead : {<< >>, <<32>>}, sep : {<<32>>, <<32, 9>>}]

SexagesimalText(a) ==
    a.lead \o Concat([i \in 1..Len(a.tokens) |->
                         (IF i = 1 THEN << >> ELSE a.sep) \o a.tokens[i]])

\* coordinate keywords: the four names, values that are decimal,
\* sexagesimal or neither, and a field that is empty or holds a value
CoordinateNames == {<<82,65>> (*RA*), <<79,66,74,67,84,82,65>> (*OBJCTRA*), <<68,69,67>> (*DEC*), <<79,66,74,67,84,68,69,67>> (*OBJCTDEC*)}

CoordinateValues ==
    {<<49,48,46,53>> (*10.5*), <<45,53,46,50,53>> (*-5.25*), <<56,51>> (*83*), <<49,48,32,51,48,32,48>> (*10 30 0*), <<45,48,32,51,48,32,48>> (*-0 30 0*), <<45,49,48,32,51,48,32,51,54>> (*-10 30 36*),
     <<97,98,99>> (*abc*), <<49,48,32,51,48>> (*10 30*), <<32,49,48,46,53>> (* 10.5*), <<49,48,32,120,32,48>> (*10 x 0*), << >>}

CoordinateArgs ==
    [name : CoordinateNames, value : CoordinateValues,
     previous : {None, Some(Rat(7, 4))}]

CoordinateRecord(a) ==
    [DefaultAstroMetadata EXCEPT !.exposure.ra = a.previous, !.exposure.dec = a.previous]

(***************************************************************************)
(* fits_parser.rs: the FITS-path mapper, on the map of the header strings. *)
(***************************************************************************)
\* the first key of keys, in their order, that the map holds with a value
\* Parse accepts
FirstHeader(headers, keys, Parse(_)) ==
    LET hits == {i \in 1..Len(keys) :
                    keys[i] \in DOMAIN headers /\ IsSome(Parse(headers[keys[i]]))}
    IN  IF hits = {} THEN None ELSE Parse(headers[keys[Min(hits)]])

NonEmpty(value) == IF value # << >> THEN Some(value) ELSE None

get_string_header(headers, keys) == FirstHeader(headers, keys, NonEmpty)
get_float_header(headers, keys) == FirstHeader(headers, keys, ParseFloat)
get_int_header(headers, keys) == FirstHeader(headers, keys, ParseI32)

\* parse_detector; shape is the HDU's image shape (height first), and
\* "as usize" is taken of numbers that are not negative
parse_detector(detector, headers, shape) ==
    LET naxis1 == get_int_header(headers, <<<<78,65,88,73,83,49>> (*NAXIS1*)>>)
        naxis2 == get_int_header(headers, <<<<78,65,88,73,83,50>> (*NAXIS2*)>>)
        width == IF IsSome(naxis1) THEN naxis1[1] ELSE detector.width
        height == IF IsSome(naxis2) THEN naxis2[1] ELSE detector.height
        from_info == (width = 0 \/ height = 0) /\ Len(shape) >= 2
    IN  [detector EXCEPT
            !.camera_name = get_string_header(headers, <<<<73,78,83,84,82,85,77,69>> (*INSTRUME*), <<67,65,77,69,82,65>> (*CAMERA*)>>),
            !.pixel_size = get_float_header(headers, <<<<80,73,88,83,73,90,69>> (*PIXSIZE*), <<88,80,73,88,83,90>> (*XPIXSZ*)>>),
            !.width = IF from_info THEN shape[2] ELSE width,
            !.height = IF from_info THEN shape[1] ELSE height,
            !.binning_x = UnwrapOr(get_int_header(headers, <<<<88,66,73,78,78,73,78,71>> (*XBINNING*)>>), 1),
            !.binning_y = UnwrapOr(get_int_header(headers, <<<<89,66,73,78,78,73,78,71>> (*YBINNING*)>>), 1),
            !.gain = get_float_header(headers, <<<<71,65,73,78>> (*GAIN*), <<69,71,65,73,78>> (*EGAIN*)>>),
            !.offset = get_int_header(headers, <<<<79,70,70,83,69,84>> (*OFFSET*), <<67,67,68,79,70,70,83,84>> (*CCDOFFST*)>>),
            !.readout_mode = get_string_header(headers, <<<<82,69,65,68,79,85,84>> (*READOUT*), <<82,69,65,68,79,85,84,77>> (*READOUTM*)>>),
            !.usb_limit = get_string_header(headers, <<<<85,83,66,76,73,77,73,84>> (*USBLIMIT*), <<85,83,66,84,82,70,67>> (*USBTRFC*)>>),
            !.read_noise = get_float_header(headers, <<<<82,68,78,79,73,83,69>> (*RDNOISE*)>>),
            !.temperature = get_float_header(headers, <<<<67,67,68,45,84,69,77,80>> (*CCD-TEMP*), <<67,67,68,84,69,77,80>> (*CCDTEMP*)>>),
            !.temp_setpoint =
                get_float_header(headers, <<<<67,67,68,45,84,69,77,80,45,83,69,84,80,79,73,78,84>> (*CCD-TEMP-SETPOINT*), <<83,69,84,45,84,69,77,80>> (*SET-TEMP*)>>),
            !.cooler_power = get_float_header(headers, <<<<67,79,79,76,45,80,87,82>> (*COOL-PWR*), <<67,79,79,76,80,87,82>> (*COOLPWR*)>>),
            !.cooler_status = get_string_header(headers, <<<<67,79,79,76,45,83,84,65,84>> (*COOL-STAT*), <<67,79,79,76,83,84,65,84>> (*COOLSTAT*)>>),
            !.rotator_angle =
                get_float_header(headers, <<<<82,79,84,65,78,71>> (*ROTANG*), <<82,79,84,80,65>> (*ROTPA*), <<82,79,84,65,84,65,78,71>> (*ROTATANG*)>>)]

parse_exposure(exposure, headers) ==
    LET ra == get_float_header(headers, <<<<82,65>> (*RA*), <<79,66,74,67,84,82,65>> (*OBJCTRA*)>>)
        date_str == get_string_header(headers, <<<<68,65,84,69,45,79,66,83>> (*DATE-OBS*)>>)
        frame_num_str == get_string_header(headers, <<<<70,82,65,77,69,78,85,77>> (*FRAMENUM*), <<83,69,81,78,85,77>> (*SEQNUM*)>>)
    IN  [exposure EXCEPT
            !.object_name = get_string_header(headers, <<<<79,66,74,69,67,84>> (*OBJECT*)>>),
            !.ra = IF IsSome(ra) THEN Some(Rat(ra[1].n * 15, ra[1].d)) ELSE None,
            !.dec = get_float_header(headers, <<<<68,69,67>> (*DEC*), <<79,66,74,67,84,68,69,67>> (*OBJCTDEC*)>>),
            !.date_obs = IF IsSome(date_str) THEN parse_date_time(date_str[1]) ELSE @,
            !.exposure_time = get_float_header(headers, <<<<69,88,80,84,73,77,69>> (*EXPTIME*), <<69,88,80,79,83,85,82,69>> (*EXPOSURE*)>>),
            !.frame_type = get_string_header(headers, <<<<73,77,65,71,69,84,89,80>> (*IMAGETYP*), <<70,82,65,77,69>> (*FRAME*)>>),
            !.sequence_id = get_string_header(headers, <<<<83,69,81,73,68>> (*SEQID*), <<83,69,81,70,73,76,69>> (*SEQFILE*)>>),
            !.frame_number =
                IF IsSome(frame_num_str) /\ IsSome(ParseUsize(frame_num_str[1]))
                THEN ParseUsize(frame_num_str[1]) ELSE @,
            !.dither_offset_x = get_float_header(headers, <<<<68,88>> (*DX*), <<68,73,84,72,88>> (*DITHX*)>>),
            !.dither_offset_y = get_float_header(headers, <<<<68,89>> (*DY*), <<68,73,84,72,89>> (*DITHY*)>>),
            !.project_name = get_string_header(headers, <<<<80,82,79,74,69,67,84>> (*PROJECT*), <<80,82,79,74,78,65,77,69>> (*PROJNAME*)>>),
            !.session_id = get_string_header(headers, <<<<83,69,83,83,73,79,78,73,68>> (*SESSIONID*), <<83,69,83,83,73,68>> (*SESSID*)>>)]

\* name/value pairs handed to both mappers: one to MaxPairs keywords of
\* different names, in any order
MaxPairs == 2

PairNames == {<<82,65>> (*RA*), <<73,78,83,84,82,85,77,69>> (*INSTRUME*), <<67,65,77,69,82,65>> (*CAMERA*), <<88,66,73,78,78,73,78,71>> (*XBINNING*), <<79,66,74,69,67,84>> (*OBJECT*)}
PairValues == {<<49,48,46,53>> (*10.5*), <<65,83,73,50,57,52>> (*ASI294*), <<50>> (*2*)}

PairLists ==
    {p \in SeqsUpTo(PairNames \X PairValues, MaxPairs) :
        Len(p) >= 1 /\ \A i, j \in 1..Len(p) : i # j => p[i][1] # p[j][1]}

\* the map of header strings of the pairs
RECURSIVE HeadersOf(_)
HeadersOf(pairs) ==
    IF pairs = << >> THEN EmptyMap
    ELSE MapInsert(HeadersOf(SubSeq(pairs, 1, Len(pairs) - 1)),
                   pairs[Len(pairs)][1], pairs[Len(pairs)][2])

\* the shape of a 2 x 2 image
TestShape == <<MaxDim, MaxDim>>

InitCalls ==
    \/ \E a \in SessionArgs : StartOn("calculate_session_date", a, SessionRecord(a))
    \/ \E a \in StaleArgs :
          StartOn("calculate_session_date", a,
                  [SessionRecord(a) EXCEPT !.exposure.session_date = a.session_date])
    \/ \E a \in BlockArgs : StartXmlContent(a)
    \/ \E a \in LookupArgs : StartOn("extract_attribute", a, DefaultAstroMetadata)
    \/ \E a \in TagLists : StartOn("extract_xml_attributes", a, DefaultAstroMetadata)
    \/ \E a \in SexagesimalArgs : StartOn("parse_sexagesimal", a, DefaultAstroMetadata)
    \/ \E a \in CoordinateArgs : StartOn("process_fits_keyword", a, CoordinateRecord(a))
    \/ \E a \in PairLists : StartOn("mappers", a, DefaultAstroMetadata)
    \/ \E a \in SessionMounts :
          StartOn("approximate_timezone_from_longitude", [mount |-> a],
                  [DefaultAstroMetadata EXCEPT !.mount = a])

\* a call of approximate_timezone_from_longitude on a record with the mount
\* of the arguments
CallTimezone ==
    /\ op = "approximate_timezone_from_longitude"
    /\ pc = "call"
    /\ result' = approximate_timezone_from_longitude(metadata)
    /\ pc' = "done"
    /\ UNCHANGED <<op, file, ioVars, header_size, xml, pos, metaVars, loadVars, args,
                   observed>>

CallSessionDate ==
    /\ op = "calculate_session_date"
    /\ pc = "call"
    /\ metadata' = calculate_session_date(metadata)
    /\ pc' = "done"
    /\ UNCHANGED <<op, file, ioVars, header_size, xml, pos, raw_headers, xisf_metadata,
                   attachments, loadVars, args, observed, result>>

\* a second call of calculate_session_date on the record of the first
CallSessionDateAgain ==
    /\ op = "calculate_session_date"
    /\ pc = "done"
    /\ pos = 0
    /\ metadata' = calculate_session_date(metadata)
    /\ pos' = 1
    /\ UNCHANGED <<op, pc, file, ioVars, header_size, xml, raw_headers, xisf_metadata,
                   attachments, loadVars, args, observed, result>>

CallXmlContent == op = "extract_xml_content" /\ ExtractXmlContent("done", "failed")

CallExtractAttribute ==
    /\ op = "extract_attribute"
    /\ pc = "call"
    /\ result' = extract_attribute(LookupText(args), args.name)
    /\ pc' = "done"
    /\ UNCHANGED <<op, file, ioVars, header_size, xml, pos, metaVars, loadVars, args,
                   observed>>

\* the geometry lookups of extract_xml_attributes and of load_xisf on the
\* text of a tag, made up to MaxSteps times on the same text
CallGeometry ==
    /\ op = "extract_xml_attributes"
    /\ pos < MaxSteps
    /\ metadata' = extract_xml_attributes(ImgText(args), metadata)
    /\ payload' = LocatePayload(Some(ImgText(args)))
    /\ pos' = pos + 1
    /\ UNCHANGED <<op, pc, file, ioVars, header_size, xml, raw_headers, xisf_metadata,
                   attachments, data, args, observed, result>>

CallParseSexagesimal ==
    /\ op = "parse_sexagesimal"
    /\ pc = "call"
    /\ result' = parse_sexagesimal(SexagesimalText(args))
    /\ pc' = "done"
    /\ UNCHANGED <<op, file, ioVars, header_size, xml, pos, metaVars, loadVars, args,
                   observed>>

\* process_fits_keyword on one coordinate keyword, or on the next pair of a
\* list of pairs
CallProcessFitsKeyword ==
    /\ op \in {"process_fits_keyword", "mappers"}
    /\ pc = "call"
    /\ LET keyword == IF op = "mappers" THEN args[pos + 1] ELSE <<args.name, args.value>>
       IN  metadata' = process_fits_keyword(metadata, keyword[1], keyword[2])
    /\ pos' = pos + 1
    /\ pc' = IF op = "mappers" /\ pos + 1 < Len(args) THEN "call"
             ELSE IF op = "mappers" THEN "fits"
             ELSE "done"
    /\ UNCHANGED <<op, file, ioVars, header_size, xml, raw_headers, xisf_metadata,
                   attachments, loadVars, args, observed, result>>

\* the FITS mapper on the map of the same pairs
CallFitsMapper ==
    /\ op = "mappers"
    /\ pc = "fits"
    /\ result' = Some([detector |-> parse_detector(DefaultDetector, HeadersOf(args), TestShape),
                       exposure |-> parse_exposure(DefaultExposure, HeadersOf(args))])
    /\ pc' = "done"
    /\ UNCHANGED <<op, file, ioVars, header_size, xml, pos, metaVars, loadVars, args,
                   observed>>

NextCalls ==
    \/ CallSessionDate
    \/ CallSessionDateAgain
    \/ CallXmlContent
    \/ CallExtractAttribute
    \/ CallGeometry
    \/ CallParseSexagesimal
    \/ CallProcessFitsKeyword
    \/ CallFitsMapper
    \/ CallTimezone

SpecCalls == InitCalls /\ [][NextCalls]_vars

(***************************************************************************)
(* C14: the session date.                                                  *)
(***************************************************************************)
\* the whole hours nearest to longitude / 15, a half going away from zero
NearestHours(q) ==
    CHOOSE k \in -13..13 :
        \/ 2 * Abs(q.n - 15 * k * q.d) < 15 * q.d
        \/ 2 * Abs(q.n - 15 * k * q.d) = 15 * q.d /\ Abs(15 * k * q.d) > Abs(q.n)

SessionShift(a) ==
    IF IsSome(a.mount) /\ IsSome(a.mount[1].longitude)
    THEN NearestHours(a.mount[1].longitude[1]) ELSE 0

\* the session day of an observation: the day whose noon is the last noon
\* at or before the shifted time
SessionDay(a) ==
    (a.date_obs[1].days * 86400 + a.date_obs[1].secs + 3600 * SessionShift(a) - 43200)
        \div 86400

SessionCalled == op = "calculate_session_date" /\ pc = "done"

RECURSIVE UntilNul(_)
UntilNul(s) == IF s = << >> \/ Head(s) = 0 THEN << >> ELSE <<Head(s)>> \o UntilNul(Tail(s))

\* the text from the first declaration marker of the block (from the start
\* of the block without one) up to the first NUL after it
MarkupOf(a) ==
    FromUtf8Lossy(UntilNul(IF a.marker THEN SliceFrom(BlockText(a), Len(a.pad))
                           ELSE BlockText(a)))

XmlContentCalled == op = "extract_xml_content" /\ pc \in {"done", "failed"}

\* C15: extract_xml_content starts the text at the first "<?xml" found
\* anywhere in the block, also when the marker is the last five bytes of
\* the block, and at offset 0 without a marker; the text ends at the first
\* NUL at or after the start, or at the end of the block; a block without
\* marker is no failure.
C15_MarkerAnywhere ==
    (XmlContentCalled /\ ~args.short) => (pc = "done" /\ xml = Some(MarkupOf(args)))

\* the same for blocks in which the marker is followed by at least one byte
C15_MarkerBeforeLastBytes ==
    (XmlContentCalled /\ ~args.short /\ (args.marker => args.tail # << >>))
        => (pc = "done" /\ xml = Some(MarkupOf(args)))

\* a block of padding ending in the marker: the text starts at offset 0
C15_Witness ==
    /\ XmlContentCalled
    /\ args = [pad |-> <<97, 0>>, marker |-> TRUE, tail |-> << >>, short |-> FALSE]
    /\ xml = Some(<<97>>)
    /\ MarkupOf(args) = <<60,63,120,109,108>>

(***************************************************************************)
(* C16: the attribute lookup.                                              *)
(***************************************************************************)
EndsWith(s, suffix) ==
    Len(suffix) <= Len(s) /\ SubSeq(s, Len(s) - Len(suffix) + 1, Len(s)) = suffix

\* the offsets of text at which name=" is written
Occurrences(text, name) ==
    {p \in 0..(Len(text) - Len(name) - 2) :
        /\ \A j \in 1..Len(name) : text[p + j] = name[j]
        /\ text[p + Len(name) + 1] = 61
        /\ text[p + Len(name) + 2] = Quote}

\* the attributes of a tag whose written name ends with name, in order
Carriers(tag, name) == SelectSeq(tag, LAMBDA at : EndsWith(at[1], name))

AttributeCalled == op = "extract_attribute" /\ pc = "done"

\* C16: extract_attribute(text, name) compares case-sensitively and returns
\* the characters between the first occurrence of name=" in text and the
\* next '"' after it, never a value of a later occurrence, and nothing when
\* name=" does not occur in text.
C16_FirstOccurrence ==
    AttributeCalled =>
        LET text == LookupText(args)
            occ == Occurrences(text, args.name)
            first == Min(occ) + Len(args.name) + 2
            closes == {q \in first..(Len(text) - 1) : text[q + 1] = Quote}
            carriers == Carriers(args.tag, args.name)
        IN  /\ occ = {} => IsNone(result)
            /\ (occ # {} /\ closes # {}) => result = Some(Slice(text, first, Min(closes)))
            /\ carriers # << >> => result = Some(carriers[1][2])
            /\ (carriers = << >> /\ args.name # <<120>> (*x*)) => IsNone(result)
            /\ args.name = <<73,68>> (*ID*) => IsNone(result)

\* id is looked up in a tag that carries id="second" before id="main"
C16_Witness ==
    /\ AttributeCalled
    /\ args.name = <<105,100>> (*id*)
    /\ Len(args.tag) = 3
    /\ args.tag[1][2] = <<49,48,48,58,53,48,58,49>> (*100:50:1*)
    /\ args.tag[2][2] = <<115,101,99,111,110,100>> (*second*)
    /\ args.tag[3][2] = <<109,97,105,110>> (*main*)
    /\ result = Some(<<115,101,99,111,110,100>> (*second*))

(***************************************************************************)
(* C17: the geometry lookup.                                               *)
(***************************************************************************)
TestGeometry == <<<<103,101,111,109,101,116,114,121>> (*geometry*), <<49,48,48,58,53,48,58,49>> (*100:50:1*)>>

Carries(tag, at) == \E i \in 1..Len(tag) : tag[i] = at

GeometryCalled == op = "extract_xml_attributes" /\ pos >= 1

GeometryFound ==
    /\ metadata.detector.width = 100
    /\ metadata.detector.height = 50
    /\ payload.from_markup => (payload.width = 100 /\ payload.height = 50)

OneLayerOff(k) == Layered(k.value[1], IF k.layers = 0 THEN 0 ELSE k.layers - 1)

\* C18: the value of a FITSKeyword stored in the raw header map and handed
\* to the keyword mapper is the attribute value with exactly one layer of
\* surrounding single quotes removed: ''M31'' is stored as 'M31', and a
\* value without surrounding quotes is stored unchanged.
C18_OneLayerRemoved ==
    (op = "extract_metadata" /\ pc = "done" /\ HeaderReadable /\ Len(args.kws) = 1
        /\ Recognised(args.kws[1])) =>
        LET k == args.kws[1]
        IN  /\ result[1].ok
            /\ result[1].value.raw_headers[k.name[1]] = OneLayerOff(k)
            /\ k.name[1] = <<79,66,74,69,67,84>> (*OBJECT*) =>
                   result[1].value.exposure.object_name = Some(OneLayerOff(k))

\* extract_metadata has returned for the header with value="''M31''": both
\* layers are gone
C18_Witness ==
    /\ op = "extract_metadata" /\ pc = "done"
    /\ args.kws = <<KwObjectTwice>>
    /\ result[1].ok
    /\ result[1].value.raw_headers = (<<79,66,74,69,67,84>> (*OBJECT*) :> <<77,51,49>> (*M31*))
    /\ result[1].value.exposure.object_name = Some(<<77,51,49>> (*M31*))
    /\ OneLayerOff(KwObjectTwice) = <<Apostrophe>> \o <<77,51,49>> (*M31*) \o <<Apostrophe>>

(***************************************************************************)
(* C19: sexagesimal values.                                                *)
(***************************************************************************)
\* the number a token of the pools stands for
TokenValue(t) ==
    CASE t = <<49,48>> (*10*) -> Some(Rat(10, 1))
      [] t = <<45,49,48>> (*-10*) -> Some(Rat(-10, 1))
      [] t = <<45,48>> (*-0*) -> Some(Rat(0, 1))
      [] t = <<48>> (*0*) -> Some(Rat(0, 1))
      [] t = <<49,46,53>> (*1.5*) -> Some(Rat(3, 2))
      [] t = <<51,48>> (*30*) -> Some(Rat(30, 1))
      [] t = <<45,51,48>> (*-30*) -> Some(Rat(-30, 1))
      [] t = <<51,54>> (*36*) -> Some(Rat(36, 1))
      [] t = <<49,46,56>> (*1.8*) -> Some(Rat(9, 5))
      [] t = <<55>> (*7*) -> Some(Rat(7, 1))
      [] OTHER -> None

RatPlus(a, b) == Rat(a.n * b.d + b.n * a.d, a.d * b.d)
RatOver(a, k) == Rat(a.n, a.d * k)
RatAbs(a) == Rat(Abs(a.n), a.d)
RatNeg(a) == Rat(-a.n, a.d)

\* sign * (|h| + m/60 + s/3600)
Sexagesimal(h, m, s, negative) ==
    LET magnitude == RatPlus(RatPlus(RatAbs(h), RatOver(m, 60)), RatOver(s, 3600))
    IN  IF negative THEN RatNeg(magnitude) ELSE magnitude

SexagesimalCalled == op = "parse_sexagesimal" /\ pc = "done"

\* C19: for a string of at least three whitespace-separated decimal tokens
\* h, m, s, parse_sexagesimal returns sign * (|h| + m/60 + s/3600), the
\* sign negative when h is negative or the string begins with '-'
\* ("-10 30 0" gives -10.5, "10 30 0" gives 10.5, "-0 30 0" gives -0.5);
\* it returns nothing for fewer than three tokens or when one of the first
\* three is not a number.
C19_Sexagesimal ==
    SexagesimalCalled =>
        LET t == args.tokens
            text == SexagesimalText(args)
            numbers == Len(t) >= 3 /\ \A i \in 1..3 : IsSome(TokenValue(t[i]))
            h == TokenValue(t[1])[1]
            negative == h.n < 0 \/ (text # << >> /\ text[1] = 45)
        IN  /\ numbers => result = Some(Sexagesimal(h, TokenValue(t[2])[1],
                                                   TokenValue(t[3])[1], negative))
            /\ ~numbers => IsNone(result)
            /\ text = <<45,49,48,32,51,48,32,48>> (*-10 30 0*) => result = Some(Rat(-21, 2))
            /\ text = <<49,48,32,51,48,32,48>> (*10 30 0*) => result = Some(Rat(21, 2))
            /\ text = <<45,48,32,51,48,32,48>> (*-0 30 0*) => result = Some(Rat(-1, 2))

\* "-0 30 0": the sign comes from the text, the first token being zero
C19_Witness ==
    /\ SexagesimalCalled
    /\ SexagesimalText(args) = <<45,48,32,51,48,32,48>> (*-0 30 0*)
    /\ result = Some(Rat(-1, 2))

(***************************************************************************)
(* C20: right ascension and declination.                                   *)
(***************************************************************************)
\* what a value of the inputs is: a decimal number, a sexagesimal triple
\* (with its value), or neither
DecimalOf(v) ==
    CASE v = <<49,48,46,53>> (*10.5*) -> Some(Rat(21, 2))
      [] v = <<45,53,46,50,53>> (*-5.25*) -> Some(Rat(-21, 4))
      [] v = <<56,51>> (*83*) -> Some(Rat(83, 1))
      [] OTHER -> None

SexagesimalOf(v) ==
    CASE v = <<49,48,32,51,48,32,48>> (*10 30 0*) -> Some(Rat(21, 2))
      [] v = <<45,48,32,51,48,32,48>> (*-0 30 0*) -> Some(Rat(-1, 2))
      [] v = <<45,49,48,32,51,48,32,51,54>> (*-10 30 36*) -> Some(Rat(-1051, 100))
      [] OTHER -> None

CoordinateCalled == op = "process_fits_keyword" /\ pc = "done" /\ args \in CoordinateArgs

\* C20: for RA/OBJCTRA and DEC/OBJCTDEC the mapper stores a value that is
\* a plain decimal number as that number; a value that is not, but is
\* sexagesimal, as 15 times its sexagesimal value for the right ascension
\* and as the sexagesimal value itself for the declination; with a value
\* that is neither, the field keeps its previous content.  The other
\* coordinate field is not touched.
C20_Coordinates ==
    CoordinateCalled =>
        LET right_ascension == args.name \in {<<82,65>> (*RA*), <<79,66,74,67,84,82,65>> (*OBJCTRA*)}
            field == IF right_ascension THEN metadata.exposure.ra ELSE metadata.exposure.dec
            other == IF right_ascension THEN metadata.exposure.dec ELSE metadata.exposure.ra
            decimal == DecimalOf(args.value)
            sexagesimal == SexagesimalOf(args.value)
        IN  /\ IsSome(decimal) => field = decimal
            /\ (IsNone(decimal) /\ IsSome(sexagesimal)) =>
                   field = Some(Rat(sexagesimal[1].n * (IF right_ascension THEN 15 ELSE 1),
                                    sexagesimal[1].d))
            /\ (IsNone(decimal) /\ IsNone(sexagesimal)) => field = args.previous
            /\ other = args.previous

\* OBJCTRA "10 30 0" on a record that held a right ascension: 157.5 degrees
C20_Witness ==
    /\ CoordinateCalled
    /\ args.name = <<79,66,74,67,84,82,65>> (*OBJCTRA*)
    /\ args.value = <<49,48,32,51,48,32,48>> (*10 30 0*)
    /\ IsSome(args.previous)
    /\ metadata.exposure.ra = Some(Rat(315, 2))
    /\ metadata.exposure.dec = args.previous

(***************************************************************************)
(* C21: timestamps that match no accepted pattern.                         *)
(***************************************************************************)
BadDateKeywords == {KwDateOnly, KwDateFeb30}
BadCreationTime == Some(<<121,101,115,116,101,114,100,97,121>> (*yesterday*))

\* the header's last source of the observation date, in the order the
\* passes of extract_metadata take them, is one that matches no pattern
LastDateSourceBad(h) ==
    \/ h.ctime = BadCreationTime
    \/ /\ IsNone(h.ctime)
       /\ \E i \in 1..Len(h.kws) :
             /\ h.kws[i] \in BadDateKeywords
             /\ \A j \in (i + 1)..Len(h.kws) : h.kws[j] = KwObject

HasBadDate(h) ==
    h.ctime = BadCreationTime \/ \E i \in 1..Len(h.kws) : h.kws[i] \in BadDateKeywords

MetadataReturned == op = "extract_metadata" /\ pc = "done" /\ HeaderReadable

\* C21: a DATE-OBS keyword or an XISF:CreationTime property whose text
\* matches none of the six accepted patterns never makes extract_metadata
\* fail: the call returns Ok, the date is absent (when no later source
\* sets it), and the rest of the header is processed: the keywords after
\* it, the geometry, the creator application, the XISF data, the
\* attachments.
C21_BadDateIsNoError ==
    (MetadataReturned /\ "kws" \in DOMAIN args /\ HasBadDate(args)) =>
        LET md == result[1].value
        IN  /\ result[1].ok
            /\ LastDateSourceBad(args) =>
                  (IsNone(md.exposure.date_obs) /\ IsNone(md.exposure.session_date))
            /\ (\E i \in 1..Len(args.kws) : args.kws[i] = KwObject)
                  => md.exposure.object_name = Some(<<77,51,49>> (*M31*))
            /\ <<68,65,84,69,45,79,66,83>> (*DATE-OBS*) \in DOMAIN md.raw_headers
                  <=> \E i \in 1..Len(args.kws) : args.kws[i].name = Some(<<68,65,84,69,45,79,66,83>> (*DATE-OBS*))
            /\ md.detector.width = 2 /\ md.detector.height = 2
            /\ IsSome(args.creator) =>
                  /\ IsSome(md.environment)
                  /\ md.environment[1].software_version = args.creator
            /\ IsSome(md.xisf)
            /\ Len(md.attachments) = 1

\* a date without a time, then OBJECT, and no creation time
C21_Witness ==
    /\ MetadataReturned
    /\ args.kws = <<KwDateOnly, KwObject>>
    /\ IsNone(args.ctime)
    /\ result[1].ok
    /\ IsNone(result[1].value.exposure.date_obs)
    /\ result[1].value.exposure.object_name = Some(<<77,51,49>> (*M31*))
    /\ result[1].value.raw_headers[<<68,65,84,69,45,79,66,83>> (*DATE-OBS*)] = <<50,48,50,51,45,48,53,45,49,53>> (*2023-05-15*)



(***************************************************************************)
(* C22: the two mappers.                                                   *)
(***************************************************************************)
MappersCalled == op = "mappers" /\ pc = "done"

HasPair(name) == \E i \in 1..Len(args) : args[i][1] = name

\* C22: given the same name/value pairs, the XISF mapper and the FITS
\* mapper write the same values into the fields of the keywords both
\* handle: the same exposure.ra for a numeric RA, the same camera_name with
\* both INSTRUME and CAMERA, the same binning without XBINNING, the same
\* object name.
C22_SameTable ==
    MappersCalled =>
        /\ metadata.exposure.ra = result[1].exposure.ra
        /\ metadata.detector.camera_name = result[1].detector.camera_name
        /\ metadata.detector.binning_x = result[1].detector.binning_x
        /\ metadata.exposure.object_name = result[1].exposure.object_name

\* RA = 10.5 alone: 10.5 from the XISF mapper, 157.5 from the FITS mapper;
\* binning 0 and 1
C22_Witness ==
    /\ MappersCalled
    /\ args = << <<<<82,65>> (*RA*), <<49,48,46,53>> (*10.5*)>> >>
    /\ metadata.exposure.ra = Some(Rat(21, 2))
    /\ result[1].exposure.ra = Some(Rat(315, 2))
    /\ metadata.detector.binning_x = 0
    /\ result[1].detector.binning_x = 1

\* INSTRUME then CAMERA: the later one from the XISF mapper, INSTRUME from
\* the FITS mapper
C22_CameraNameDiffers ==
    /\ MappersCalled
    /\ args = << <<<<73,78,83,84,82,85,77,69>> (*INSTRUME*), <<65,83,73,50,57,52>> (*ASI294*)>>, <<<<67,65,77,69,82,65>> (*CAMERA*), <<50>> (*2*)>> >>
    /\ metadata.detector.camera_name = Some(<<50>> (*2*))
    /\ result[1].detector.camera_name = Some(<<65,83,73,50,57,52>> (*ASI294*))

(***************************************************************************)
(* C23: the WCS reference value.                                           *)
(***************************************************************************)
ReferenceValueKeys == {<<67,82,86,65,76,49>> (*CRVAL1*), <<67,82,86,65,76,50>> (*CRVAL2*)}

\* C23: a keyword named CRVAL1 or CRVAL2 creates the WCS data (if absent)
\* and sets crval1 or crval2, as CRPIX1 and CRPIX2 do for crpix1 and
\* crpix2: once the mapper has handled one of them, the WCS data exist.
C23_ReferenceValuesMapped ==
    (op = "process_fits_keyword" /\ observed \cap ReferenceValueKeys # {})
        => IsSome(metadata.wcs)

\* the mapper has handled CRVAL1 and CRVAL2 and nothing else: the record is
\* as it was
C23_Witness ==
    /\ op = "process_fits_keyword"
    /\ observed = ReferenceValueKeys
    /\ metadata = DefaultAstroMetadata

\* the mapper has handled CRPIX1 alone: the WCS data exist
C23_ReferencePixelMapped ==
    /\ op = "process_fits_keyword"
    /\ observed = {<<67,82,80,73,88,49>> (*CRPIX1*)}
    /\ IsSome(metadata.wcs)
    /\ metadata.wcs[1].crpix1 = Some(Rat(3, 2))
    /\ IsNone(metadata.wcs[1].crval1)

(***************************************************************************)
(* C24: the payload is read after the header.                              *)
(***************************************************************************)
\* the i-th access to the input comes after a read of the whole header
\* block that succeeded
AfterHeader(i) ==
    \E j \in 1..(i - 1) :
        /\ IsSome(header_size)
        /\ io_log[j] = ReadRecord(12, header_size[1])

\* C24: in every execution of load_xisf the seek to the payload offset and
\* the read of the payload bytes come after the header_size bytes of the
\* header block were read in full; where the header block was not read in
\* full, no payload byte is read.
C24_PayloadAfterHeader ==
    op = "load_xisf" =>
        \A i \in 1..Len(io_log) :
            (io_log[i].kind = "seek"
                \/ (i > 1 /\ io_log[i - 1].kind = "seek" /\ io_log[i].kind = "read"))
            => AfterHeader(i)

\* load_xisf has returned pixels although the read of the header block
\* failed: the fixed range was read
C24_Witness ==
    /\ op = "load_xisf" /\ pc = "done"
    /\ file = OverstatedHeader
    /\ result[1].ok
    /\ io_log = << ReadRecord(0, 8), ReadRecord(8, 4),
                   [kind |-> "read", at |-> 12, len |-> 33554432, ok |-> FALSE],
                   [kind |-> "seek", at |-> DefaultDataOffset, len |-> 0, ok |-> TRUE],
                   ReadRecord(DefaultDataOffset, DefaultDataSize) >>


(***************************************************************************)
(* C25: a keyword of a substructure that exists changes only its field.    *)
(***************************************************************************)
\* the fields in which two values of one substructure differ
FieldsChanged(before, after) == {f \in DOMAIN before : before[f] # after[f]}

\* a step keeps the substructure and changes at most one field of it
KeepsButOneField(before, after) ==
    IsSome(before) =>
        /\ IsSome(after)
        /\ Cardinality(FieldsChanged(before[1], after[1])) <= 1

\* C25: in every step of the mapper, a mount, an environment or WCS data
\* that exists before the step exists after it and differs in at most one
\* field, and a step that changes one of the three leaves the other two as
\* they were; so PIERSIDE followed by SITELONG leaves pier_side set.
C25_OnlyItsField ==
    [][ /\ KeepsButOneField(metadata.mount, metadata'.mount)
        /\ KeepsButOneField(metadata.environment, metadata'.environment)
        /\ KeepsButOneField(metadata.wcs, metadata'.wcs)
        /\ metadata'.mount # metadata.mount
              => /\ metadata'.environment = metadata.environment
                 /\ metadata'.wcs = metadata.wcs
        /\ metadata'.environment # metadata.environment
              => /\ metadata'.mount = metadata.mount
                 /\ metadata'.wcs = metadata.wcs
        /\ metadata'.wcs # metadata.wcs
              => /\ metadata'.mount = metadata.mount
                 /\ metadata'.environment = metadata.environment ]_vars

\* PIERSIDE and SITELONG were handled, and the mount holds both values
C25_Witness ==
    /\ op = "process_fits_keyword"
    /\ observed = {<<80,73,69,82,83,73,68,69>> (*PIERSIDE*), <<83,73,84,69,76,79,78,71>> (*SITELONG*)}
    /\ IsSome(metadata.mount)
    /\ IsSome(metadata.mount[1].pier_side)
    /\ IsSome(metadata.mount[1].longitude)


(***************************************************************************)
(* C26: the time zone offset of a longitude.                               *)
(***************************************************************************)
TimezoneCalled == op = "approximate_timezone_from_longitude" /\ pc = "done"

\* C26: approximate_timezone_from_longitude yields nothing when there is no
\* mount or the mount has no longitude, and otherwise the whole number
\* nearest to longitude / 15 with a half going away from zero: 0 gives 0,
\* 15 gives 1, -75 gives -5 and 127.5 gives 9.
C26_TimezoneFromLongitude ==
    TimezoneCalled =>
        /\ (IsNone(args.mount) \/ IsNone(args.mount[1].longitude)) => result = None
        /\ (IsSome(args.mount) /\ IsSome(args.mount[1].longitude))
               => result = Some(NearestHours(args.mount[1].longitude[1]))
        /\ \A c \in {<<Rat(0, 1), 0>>, <<Rat(15, 1), 1>>, <<Rat(-75, 1), -5>>,
                     <<Rat(255, 2), 9>>, <<Rat(-15, 2), -1>>} :
               (IsSome(args.mount) /\ args.mount[1].longitude = Some(c[1]))
                   => result = Some(c[2])

\* the call with the longitude 127.5 returned 9
C26_Witness ==
    /\ TimezoneCalled
    /\ IsSome(args.mount)
    /\ args.mount[1].longitude = Some(Rat(255, 2))
    /\ result = Some(9)

\* the call with a mount without longitude returned nothing
C26_NoLongitude ==
    /\ TimezoneCalled
    /\ args.mount = Some(DefaultMount)
    /\ result = None


(***************************************************************************)
(* C27: the version of the XISF metadata.                                  *)
(***************************************************************************)
\* C27: the record extract_metadata returns for a header whose xisf
\* element has a version attribute holds that value as xisf.version, also
\* when the text begins with <?xml version="1.0"?>.
C27_VersionOfContainer ==
    (op = "extract_metadata" /\ pc = "done" /\ HeaderReadable /\ IsSome(args.version)) =>
        /\ result[1].ok
        /\ result[1].value.xisf[1].version = args.version[1]

\* <?xml version="1.0"?><xisf version="2.0">: the record holds "1.0"
C27_Witness ==
    /\ op = "extract_metadata" /\ pc = "done" /\ HeaderReadable
    /\ args.decl /\ args.version = Some(<<50,46,48>> (*2.0*))
    /\ result[1].ok
    /\ result[1].value.xisf[1].version = <<49,46,48>> (*1.0*)

\* <xisf version="2.0"> without a declaration: the record holds "2.0"
C27_WithoutDeclaration ==
    /\ op = "extract_metadata" /\ pc = "done" /\ HeaderReadable
    /\ ~args.decl /\ args.version = Some(<<50,46,48>> (*2.0*))
    /\ result[1].ok
    /\ result[1].value.xisf[1].version = <<50,46,48>> (*2.0*)


(***************************************************************************)
(* C28: the scans for FITSKeyword and Image elements terminate.            *)
(***************************************************************************)
\* the offsets of text at which pat is written
PlacesOf(text, pat) ==
    {p \in 0..(Len(text) - Len(pat)) : Slice(text, p, p + Len(pat)) = pat}

Scanning == op = "extract_metadata" /\ pc \in {"fits_keywords", "attachments"}

\* the prefix and the terminator of the elements the current scan visits
ScanOpen == IF pc = "fits_keywords" THEN <<60,70,73,84,83,75,101,121,119,111,114,100,32>> (*<FITSKeyword *) ELSE <<60,73,109,97,103,101,32>> (*<Image *)
ScanClose == IF pc = "fits_keywords" THEN <<47,62>> (*/>*) ELSE <<62>> (*>*)

\* the prefixes at or after the scan position, and the terminators at or
\* after the offset s
OpensAhead == {s \in PlacesOf(xml[1], ScanOpen) : s >= pos}
ClosesAhead(s) == {c \in PlacesOf(xml[1], ScanClose) : c >= s}

\* the scan has a further element: a prefix with a terminator after it
ElementAhead == OpensAhead # {} /\ ClosesAhead(Min(OpensAhead)) # {}

\* A step of a scan: with an element ahead the scan goes on, and the
\* position moves to the end of the first terminator after the first
\* prefix, beyond the prefix and beyond the old position; otherwise the
\* scan is left.
ScanStep ==
    Scanning =>
        IF ElementAhead
        THEN /\ pc' = pc
             /\ pos' = Min(ClosesAhead(Min(OpensAhead))) + Len(ScanClose)
             /\ pos' > Min(OpensAhead)
             /\ pos' > pos
             /\ pos' <= Len(xml[1])
        ELSE pc' # pc

\* C28: every step of the scans of extract_fits_keywords and
\* extract_attachments moves the position strictly forward to the end of
\* the first terminator of the next element, so no element is visited
\* twice; a scan is left when no prefix is ahead or the prefix ahead has no
\* terminator; and every scan is left eventually.
C28_ScansTerminate ==
    /\ [][ScanStep]_vars
    /\ Scanning ~> ~Scanning

\* the keyword scan stands behind the second of two elements, with no
\* further element ahead
C28_Witness ==
    /\ op = "extract_metadata" /\ pc = "fits_keywords"
    /\ Len(args.kws) = 2
    /\ Cardinality({s \in PlacesOf(xml[1], ScanOpen) : s < pos}) = 2
    /\ ~ElementAhead

\* a scan stands before a prefix that has no terminator
C28_PrefixWithoutTerminator ==
    /\ Scanning
    /\ OpensAhead # {}
    /\ ~ElementAhead


(***************************************************************************)
(* C29: the session date is a noon, holds the shifted time in its day, and *)
(* a second call changes nothing.                                          *)
(***************************************************************************)
\* the seconds since 1970-01-01 of a time, without its nanoseconds
SecondsOf(dt) == dt.days * 86400 + dt.secs

\* the record the call started from
SessionStart ==
    IF "session_date" \in DOMAIN args
    THEN [SessionRecord(args) EXCEPT !.exposure.session_date = args.session_date]
    ELSE SessionRecord(args)

\* after one or two calls: with date_obs the session date is a time
\* 12:00:00 and the shifted observation time lies in the 24 hours from it;
\* without date_obs the record is the one the call started from
SessionWindow ==
    SessionCalled =>
        IF IsSome(args.date_obs)
        THEN LET session == metadata.exposure.session_date
                 shifted == SecondsOf(args.date_obs[1]) + 3600 * SessionShift(args)
             IN  /\ IsSome(session)
                 /\ session[1].secs = 43200 /\ session[1].nanos = 0
                 /\ SecondsOf(session[1]) <= shifted
                 /\ shifted < SecondsOf(session[1]) + 86400
        ELSE metadata = SessionStart

\* a call on the record of an earlier call leaves the record as it is
SecondCallStep == (SessionCalled /\ SessionCalled') => metadata' = metadata

C29_NoDateObs ==
    /\ SessionCalled /\ pos = 1
    /\ IsNone(args.date_obs)
    /\ metadata.exposure.session_date = Some([days |-> 0, secs |-> 43200, nanos |-> 0])


(***************************************************************************)
(* C30: the creation time property overrides DATE-OBS.                     *)
(***************************************************************************)
GoodCreationTime == Some(<<50,48,50,51,45,48,49,45,49,53,84,48,50,58,48,48,58,48,48,90>> (*2023-01-15T02:00:00Z*))

\* 2023-01-15T02:00:00 and the noon before it; 2023-05-15T14:00:00 and the
\* noon before it
CreationDate == [days |-> TestDay - 120, secs |-> 7200, nanos |-> 0]
CreationSession == [days |-> TestDay - 121, secs |-> 43200, nanos |-> 0]
KeywordDate == [days |-> TestDay, secs |-> 50400, nanos |-> 0]
KeywordSession == [days |-> TestDay, secs |-> 43200, nanos |-> 0]

\* C30: in the record extract_metadata returns for a header with an
\* XISF:CreationTime property, date_obs is the parse of that property and
\* the session date is derived from it, whatever DATE-OBS keywords the
\* header has: a parsed DATE-OBS is overwritten, and with a creation time
\* that matches no pattern the date and the session date are absent.
\* Without the property the date is that of the last DATE-OBS keyword.
C30_CreationTimeOverrides ==
    (MetadataReturned /\ "kws" \in DOMAIN args) =>
        LET exposure == result[1].value.exposure
        IN  /\ result[1].ok
            /\ args.ctime = GoodCreationTime =>
                  /\ exposure.date_obs = Some(CreationDate)
                  /\ exposure.session_date = Some(CreationSession)
            /\ args.ctime = BadCreationTime =>
                  /\ IsNone(exposure.date_obs)
                  /\ IsNone(exposure.session_date)
            /\ (IsNone(args.ctime) /\ Len(args.kws) > 0
                    /\ args.kws[Len(args.kws)] = KwDateObs) =>
                  /\ exposure.date_obs = Some(KeywordDate)
                  /\ exposure.session_date = Some(KeywordSession)

\* DATE-OBS = 2023-05-15T14:00:00 and the creation time
\* 2023-01-15T02:00:00Z: the record holds the creation time
C30_Witness ==
    /\ MetadataReturned
    /\ args.kws = <<KwDateObs>>
    /\ args.ctime = GoodCreationTime
    /\ result[1].ok
    /\ result[1].value.exposure.date_obs = Some(CreationDate)
    /\ result[1].value.exposure.session_date = Some(CreationSession)

\* DATE-OBS = 2023-05-15T14:00:00 and a creation time that matches no
\* pattern: the record holds no date
C30_DateDropped ==
    /\ MetadataReturned
    /\ args.kws = <<KwDateObs>>
    /\ args.ctime = BadCreationTime
    /\ result[1].ok
    /\ IsNone(result[1].value.exposure.date_obs)

=============================================================================
